---- MODULE Spec2Model ----
(***************************************************************************)
(* A model of the Deta Base clients of deta_py: the TTL inserter           *)
(* (deta_base/utils.py), the batch putter of the blocking client           *)
(* (deta_base/base.py) and of the asyncio client (deta_base/async_base.py),*)
(* the update-operation builder (deta_base/queries.py), the key parser     *)
(* (deta_py/utils.py) with the constructors, and get, delete, insert,      *)
(* update and query of both clients with the caller's pagination loop.     *)
(*                                                                         *)
(* Time is counted in ticks, SubSecond ticks to the second, so that an      *)
(* instant has a whole-second part and a sub-second part.  A datetime is    *)
(* a naive local time, a number is a count of seconds (possibly with a     *)
(* fraction), a timedelta is a duration; each carries its ticks.           *)
(***************************************************************************)
EXTENDS Integers, Sequences, FiniteSets, TLC

VARIABLES
    client,       \* "DetaBase" or "AsyncDetaBase": the client put was called on
    pc,           \* position of the put call
    args,         \* the items put was called with: references (heap addresses) of dicts
    heap,         \* the caller's dicts, by address (insert_ttl mutates in place)
    items,        \* put's local: the references not yet sent
    expire_at,    \* put's argument
    expire_in,    \* put's argument
    processed,    \* put's local: items the service reported processed
    result,       \* what put returned
    requests,     \* every PUT /items request sent, in send order
    responses,    \* the service's answers, responses[i] answers requests[i]
    received,     \* number of responses the client has consumed
    now,          \* the local clock, in ticks
    ttl_calls,    \* the insert_ttl calls made directly, with their results
    builders,     \* the ItemUpdate objects, by address
    chain,        \* what the latest call of the chained expression returned
    ops,          \* the ItemUpdate calls made so far, in call order
    body_ref,     \* the builder as_json was called on (0: not called); the
                  \* body holds the builder's own dicts and list
    base,         \* the client object: not constructed yet, constructed, or
                  \* the constructor raised
    call,         \* the get, delete, insert, update or query call under way
    ret,          \* what that call returned, or that it raised
    store,        \* the remote collection: the stored items, by key
    loop          \* the caller's pagination loop over query

vars == <<client, pc, args, heap, items, expire_at, expire_in, processed,
          result, requests, responses, received, now, ttl_calls,
          builders, chain, ops, body_ref, base, call, ret, store, loop>>

putVars == <<client, pc, args, heap, items, expire_at, expire_in, processed,
             result, requests, responses, received>>

updVars == <<builders, chain, ops, body_ref>>

(* the variables of the components added after the putter and the inserter *)
baseVars == <<base, call, ret, store, loop>>

restVars == <<updVars, baseVars>>

----------------------------------------------------------------------------
(* Bounds of the model *)

SubSecond == 2      \* ticks per second
UtcOffset == 1      \* local time minus UTC, in seconds
MaxInstant == 3     \* absolute expirations range over 0..MaxInstant ticks
MaxDuration == 2    \* relative durations range over -1..MaxDuration ticks
MaxNow == 4         \* the clock stops advancing at MaxNow ticks
MaxItems == 51      \* put is called with 0..MaxItems items

(* Program constants *)

ITEMS_BATCH_SIZE == 25
MULTI_STATUS == 207
TTL_ATTRIBUTE == "__expires"

----------------------------------------------------------------------------
(* Values *)

None == [type |-> "None", ticks |-> 0]
Datetime(t) == [type |-> "datetime", ticks |-> t]
Number(t) == [type |-> "number", ticks |-> t]
Timedelta(t) == [type |-> "timedelta", ticks |-> t]

EmptyDict == [k \in {} |-> None]
SetItem(d, f, v) == [k \in (DOMAIN d) \cup {f} |-> IF k = f THEN v ELSE d[k]]

(* replace_microsecond without the replacement: the sub-second part is kept *)
replace_microsecond_kept(dt) == dt

(* datetime.replace(microsecond=0): the sub-second part is zeroed *)
replace_microsecond(dt) == Datetime(dt.ticks - (dt.ticks % SubSecond))

(* datetime.timestamp() of a naive local datetime: seconds since the epoch *)
timestamp(dt) == Number(dt.ticks - UtcOffset * SubSecond)

(* timedelta_seconds taking only the whole seconds of n *)
timedelta_seconds_int(n) == Timedelta(n.ticks - (n.ticks % SubSecond))

(* timedelta(seconds=n) *)
timedelta_seconds(n) == Timedelta(n.ticks)

(* datetime + timedelta *)
datetime_add(dt, td) == Datetime(dt.ticks + td.ticks)

(* datetime.now() *)
datetime_now == Datetime(now)

(* insert_ttl with the two sources tried in the other order *)
insert_ttl_in_first(item, expires_at, expires_in) ==
    IF expires_in # None
    THEN LET delta == IF expires_in.type = "number"
                      THEN timedelta_seconds(expires_in)
                      ELSE expires_in
         IN SetItem(item, TTL_ATTRIBUTE,
                    timestamp(replace_microsecond(datetime_add(datetime_now, delta))))
    ELSE IF expires_at # None
    THEN SetItem(item, TTL_ATTRIBUTE,
                 IF expires_at.type = "datetime"
                 THEN timestamp(replace_microsecond(expires_at))
                 ELSE expires_at)
    ELSE item

(* insert_ttl converting a datetime without zeroing its microseconds *)
insert_ttl_no_replace(item, expires_at, expires_in) ==
    IF expires_at # None
    THEN SetItem(item, TTL_ATTRIBUTE,
                 IF expires_at.type = "datetime"
                 THEN timestamp(expires_at)
                 ELSE expires_at)
    ELSE IF expires_in # None
    THEN LET delta == IF expires_in.type = "number"
                      THEN timedelta_seconds(expires_in)
                      ELSE expires_in
         IN SetItem(item, TTL_ATTRIBUTE,
                    timestamp(replace_microsecond(datetime_add(datetime_now, delta))))
    ELSE item

(* insert_ttl that clears a TTL when no expiration is given *)
insert_ttl_clearing(item, expires_at, expires_in) ==
    IF expires_at # None
    THEN SetItem(item, TTL_ATTRIBUTE,
                 IF expires_at.type = "datetime"
                 THEN timestamp(replace_microsecond(expires_at))
                 ELSE expires_at)
    ELSE IF expires_in # None
    THEN LET delta == IF expires_in.type = "number"
                      THEN timedelta_seconds(expires_in)
                      ELSE expires_in
         IN SetItem(item, TTL_ATTRIBUTE,
                    timestamp(replace_microsecond(datetime_add(datetime_now, delta))))
    ELSE [k \in (DOMAIN item) \ {TTL_ATTRIBUTE} |-> item[k]]

(* insert_ttl(item, expires_at, expires_in): the item it returns *)
insert_ttl(item, expires_at, expires_in) ==
    IF expires_at # None
    THEN SetItem(item, TTL_ATTRIBUTE,
                 IF expires_at.type = "datetime"
                 THEN timestamp(replace_microsecond(expires_at))
                 ELSE expires_at)
    ELSE IF expires_in # None
    THEN LET delta == IF expires_in.type = "number"
                      THEN timedelta_seconds(expires_in)
                      ELSE expires_in
         IN SetItem(item, TTL_ATTRIBUTE,
                    timestamp(replace_microsecond(datetime_add(datetime_now, delta))))
    ELSE item

----------------------------------------------------------------------------
(* The update-operation builder: ItemUpdate (deta_base/queries.py) *)

(* dict.update(kwargs): the entries of kwargs replace or extend those of d *)
dict_update(d, kwargs) ==
    [k \in (DOMAIN d) \cup (DOMAIN kwargs) |->
        IF k \in DOMAIN kwargs THEN kwargs[k] ELSE d[k]]

(* list.extend(args) *)
list_extend(l, names) == l \o names

(* ItemUpdate.__init__: three empty dicts and an empty list *)
ItemUpdate_init ==
    [c \in {"_set", "_increment", "_append", "_delete"} |->
        IF c = "_delete" THEN <<>> ELSE EmptyDict]

(* a set that also withdraws the fields it sets from the delete list *)
ItemUpdate_set_exclusive(b, kwargs) ==
    [b EXCEPT !["_set"] = dict_update(b["_set"], kwargs),
              !["_delete"] = SelectSeq(b["_delete"], LAMBDA f : f \notin DOMAIN kwargs)]

(* ItemUpdate.set with its keyword arguments: the builder after the call *)
ItemUpdate_set(b, kwargs) ==
    [b EXCEPT !["_set"] = dict_update(b["_set"], kwargs)]

(* an increment that keeps the delta a field already has *)
ItemUpdate_increment_first_wins(b, kwargs) ==
    [b EXCEPT !["_increment"] = dict_update(kwargs, b["_increment"])]

(* ItemUpdate.increment with its keyword arguments *)
ItemUpdate_increment(b, kwargs) ==
    [b EXCEPT !["_increment"] = dict_update(b["_increment"], kwargs)]

(* ItemUpdate.append with its keyword arguments *)
ItemUpdate_append(b, kwargs) ==
    [b EXCEPT !["_append"] = dict_update(b["_append"], kwargs)]

(* a delete that keeps the field names as a set: no name is added twice *)
ItemUpdate_delete_once(b, names) ==
    LET RECURSIVE add(_, _)
        add(l, a) ==
            IF a = <<>> THEN l
            ELSE add(IF \E i \in DOMAIN l : l[i] = Head(a) THEN l ELSE Append(l, Head(a)),
                     Tail(a))
    IN [b EXCEPT !["_delete"] = add(b["_delete"], names)]

(* ItemUpdate.delete with its positional arguments *)
ItemUpdate_delete(b, names) ==
    [b EXCEPT !["_delete"] = list_extend(b["_delete"], names)]

(* a method that returns nothing *)
ItemUpdate_return_none(self) == 0

(* `return self`, the last statement of set, increment, append and delete *)
ItemUpdate_return(self) == self

(* an as_json that leaves the unused categories out *)
ItemUpdate_as_json_sparse(b) ==
    LET used == {c \in {"set", "increment", "append"} : DOMAIN b["_" \o c] # {}}
                \cup (IF b["_delete"] # <<>> THEN {"delete"} ELSE {})
    IN [c \in used |-> b["_" \o c]]

(* ItemUpdate.as_json(): the request body *)
ItemUpdate_as_json(b) ==
    [c \in {"set", "increment", "append", "delete"} |->
        CASE c = "set" -> b["_set"]
          [] c = "increment" -> b["_increment"]
          [] c = "append" -> b["_append"]
          [] c = "delete" -> b["_delete"]]

----------------------------------------------------------------------------
(* The key parser (deta_py/utils.py) and the constructors.  A string is the
   sequence of its characters. *)

MaxKeyLen == 4      \* data keys have 0..MaxKeyLen characters

Alphabet == {"a", "b", "_"}

RECURSIVE StringsOf(_)
StringsOf(n) ==
    IF n = 0 THEN {<<>>}
    ELSE LET shorter == StringsOf(n - 1)
         IN shorter \cup {Append(w, ch) : w \in {v \in shorter : Len(v) = n - 1},
                                          ch \in Alphabet}
DataKeys == StringsOf(MaxKeyLen)

(* str.split(sep): the parts between the occurrences of sep, empty parts
   included *)
RECURSIVE str_split(_, _)
str_split(str, sep) ==
    IF \A i \in DOMAIN str : str[i] # sep THEN <<str>>
    ELSE LET i == CHOOSE j \in DOMAIN str :
                      str[j] = sep /\ \A k \in 1..(j - 1) : str[k] # sep
         IN <<SubSeq(str, 1, i - 1)>> \o str_split(SubSeq(str, i + 1, Len(str)), sep)

(* a parser that cuts at the first separator only *)
parse_data_key_partition(data_key) ==
    IF \A i \in DOMAIN data_key : data_key[i] # "_"
    THEN [raised |-> TRUE, project_id |-> <<>>, project_key |-> <<>>]
    ELSE LET i == CHOOSE j \in DOMAIN data_key :
                      data_key[j] = "_" /\ \A k \in 1..(j - 1) : data_key[k] # "_"
         IN [raised |-> FALSE, project_id |-> SubSeq(data_key, 1, i - 1),
             project_key |-> SubSeq(data_key, i + 1, Len(data_key))]

(* parse_data_key(data_key): unpacking the parts into two names raises
   ValueError unless there are exactly two parts *)
parse_data_key(data_key) ==
    LET parts == str_split(data_key, "_")
    IN IF Len(parts) = 2
       THEN [raised |-> FALSE, project_id |-> parts[1], project_key |-> parts[2]]
       ELSE [raised |-> TRUE, project_id |-> <<>>, project_key |-> <<>>]

Unconstructed == [state |-> "new", data_key |-> <<>>, project_id |-> <<>>]

(* __init__ of either client: the attributes it leaves, or that it raised *)
Constructed(data_key) ==
    LET parsed == parse_data_key(data_key)
    IN IF parsed.raised
       THEN [state |-> "raised", data_key |-> data_key, project_id |-> <<>>]
       ELSE [state |-> "ok", data_key |-> data_key, project_id |-> parsed.project_id]

----------------------------------------------------------------------------
(* Calls, return values and the remote collection *)

OK == 200
CREATED == 201
DEFAULT_LIMIT == 1000

(* Python's None where a key or a cursor is expected; keys are 1, 2, ... *)
NoLast == 0

NoCall == [op |-> "none"]
NoRet == [kind |-> "pending"]
ReturnedNone == [kind |-> "None"]
Raised == [kind |-> "raised"]
NoLoop == [state |-> "none"]

(* QueryResult(items, count, last) *)
QueryResult(its, count, last) == [items |-> its, count |-> count, last |-> last]

KeyedItem(k, age) == SetItem(SetItem(EmptyDict, "key", k), "age", age)

(* the collection the tests start from: keys 1, 2, 3 aged 20, 21, 22 *)
InitialStore == [k \in 1..3 |-> KeyedItem(k, 19 + k)]

(* Query arguments: nothing, one condition mapping, or a list of them *)
NoQuery == [type |-> "None", value |-> <<>>]
DictQuery(cond) == [type |-> "dict", value |-> cond]
ListQuery(conds) == [type |-> "list", value |-> conds]

----------------------------------------------------------------------------
(* Inputs *)

ExpireAts == {None} \cup {Datetime(t) : t \in 0..MaxInstant}
                    \cup {Number(t) : t \in 0..MaxInstant}
ExpireIns == {None} \cup {Timedelta(t) : t \in -1..MaxDuration}
                    \cup {Number(t) : t \in -1..MaxDuration}
TtlItems == {EmptyDict, SetItem(SetItem(EmptyDict, "key", 1), TTL_ATTRIBUTE, Number(1))}

----------------------------------------------------------------------------
(* The TTL inserter called directly *)

(* insert_ttl is called directly.  The properties of insert_ttl relate one
   call or two calls, so a first and a second call are recorded. *)
InsertTtl ==
    /\ Len(ttl_calls) < 2
    /\ \E item \in TtlItems, at \in ExpireAts, in \in ExpireIns :
         ttl_calls' = Append(ttl_calls,
                             [item |-> item, expires_at |-> at, expires_in |-> in,
                              now |-> now, result |-> insert_ttl(item, at, in)])
    /\ UNCHANGED <<putVars, now, restVars>>

(* time passes *)
Tick ==
    /\ now < MaxNow
    /\ now' = now + 1
    /\ UNCHANGED <<putVars, ttl_calls, restVars>>

(* everything but the client object, before any call *)
Idle ==
    /\ client = "DetaBase"
    /\ pc = "idle"
    /\ args = <<>>
    /\ heap = <<>>
    /\ items = <<>>
    /\ expire_at = None
    /\ expire_in = None
    /\ processed = <<>>
    /\ result = <<>>
    /\ requests = <<>>
    /\ responses = <<>>
    /\ received = 0
    /\ now = SubSecond
    /\ ttl_calls = <<>>
    /\ builders = [a \in {1, 2} |-> ItemUpdate_init]
    /\ chain = 1
    /\ ops = <<>>
    /\ body_ref = 0
    /\ call = NoCall
    /\ ret = NoRet
    /\ store = InitialStore
    /\ loop = NoLoop

(* the state after the construction of the client *)
Init == Idle /\ base = Constructed(<<"a", "_", "b">>)

(* the state before the construction of the client *)
InitKey == Idle /\ base = Unconstructed

NextTtl == InsertTtl \/ Tick

SpecTtl == Init /\ [][NextTtl]_vars

----------------------------------------------------------------------------
(* The batch putter: DetaBase.put and AsyncDetaBase.put *)

Min(a, b) == IF a < b THEN a ELSE b

(* a truth test that takes every tuple, the empty one too, as true *)
truthy_always(its) == TRUE

(* `while items`: a tuple is true when it is not empty *)
truthy(its) == its # <<>>

(* a slice one item short of the batch size *)
batch_of_short(its) == SubSeq(its, 1, Min(Len(its), ITEMS_BATCH_SIZE - 1))

(* items[:ITEMS_BATCH_SIZE] *)
batch_of(its) == SubSeq(its, 1, Min(Len(its), ITEMS_BATCH_SIZE))

(* a slice that starts one item too late *)
rest_of_late(its) ==
    IF Len(its) <= ITEMS_BATCH_SIZE + 1 THEN <<>>
    ELSE SubSeq(its, ITEMS_BATCH_SIZE + 2, Len(its))

(* items[ITEMS_BATCH_SIZE:] *)
rest_of(its) ==
    IF Len(its) <= ITEMS_BATCH_SIZE THEN <<>>
    ELSE SubSeq(its, ITEMS_BATCH_SIZE + 1, Len(its))

(* a _put_batch result that trusts the body whatever the status *)
put_batch_result_any_status(response) == response.processed

(* what _put_batch returns for a response that arrived *)
put_batch_result(response) ==
    IF response.status = MULTI_STATUS THEN response.processed ELSE <<>>

(* the caller's dict number i, before put touches it *)
NewItem(i) == SetItem(EmptyDict, "key", i)

PutExpireAts == {None, Datetime(MaxInstant), Number(MaxInstant)}
PutExpireIns == {None, Number(1)}

(* ---- the blocking client, deta_base/base.py ---- *)

(* DetaBase.put is called with its items and TTL arguments; put starts
   with processed = [] *)
DetaBase_put ==
    /\ pc = "idle"
    /\ \E n \in 0..MaxItems, at \in PutExpireAts, in \in PutExpireIns :
         /\ args' = [i \in 1..n |-> i]
         /\ heap' = [i \in 1..n |-> NewItem(i)]
         /\ items' = [i \in 1..n |-> i]
         /\ expire_at' = at
         /\ expire_in' = in
    /\ client' = "DetaBase"
    /\ processed' = <<>>
    /\ pc' = "while"
    /\ UNCHANGED <<result, requests, responses, received, now, ttl_calls, restVars>>

(* one turn of the loop up to the request: the slice, insert_ttl on every
   item of the slice (in place, all at one clock reading), and the
   PUT /items request *)
DetaBase_put_batch ==
    /\ client = "DetaBase"
    /\ pc = "while"
    /\ truthy(items)
    /\ LET batch_items == batch_of(items)
           refs == {batch_items[i] : i \in DOMAIN batch_items}
           mutated == [a \in DOMAIN heap |->
                          IF a \in refs
                          THEN insert_ttl(heap[a], expire_at, expire_in)
                          ELSE heap[a]]
       IN /\ items' = rest_of(items)
          /\ heap' = mutated
          /\ requests' = Append(requests,
                 [method |-> "PUT", path |-> "/items",
                  items |-> [i \in DOMAIN batch_items |-> mutated[batch_items[i]]]])
    /\ pc' = "request"
    /\ UNCHANGED <<client, args, expire_at, expire_in, processed, result,
                   responses, received, now, ttl_calls, restVars>>

(* the response arrives: _put_batch returns, put extends processed; a
   transport exception leaves put *)
DetaBase_put_batch_return ==
    /\ client = "DetaBase"
    /\ pc = "request"
    /\ Len(responses) = Len(requests)
    /\ LET response == responses[Len(responses)]
       IN IF response.raised
          THEN pc' = "raised" /\ UNCHANGED processed
          ELSE /\ processed' = processed \o put_batch_result(response)
               /\ pc' = "while"
    /\ received' = received + 1
    /\ UNCHANGED <<client, args, heap, items, expire_at, expire_in, result,
                   requests, responses, now, ttl_calls, restVars>>

(* the loop ends: return processed *)
DetaBase_put_return ==
    /\ client = "DetaBase"
    /\ pc = "while"
    /\ ~truthy(items)
    /\ result' = processed
    /\ pc' = "done"
    /\ UNCHANGED <<client, args, heap, items, expire_at, expire_in, processed,
                   requests, responses, received, now, ttl_calls, restVars>>

(* ---- the asyncio client, deta_base/async_base.py: every request is
   awaited where the blocking client blocks ---- *)

(* AsyncDetaBase.put is called with its items and TTL arguments; put starts
   with processed = [] *)
AsyncDetaBase_put ==
    /\ pc = "idle"
    /\ \E n \in 0..MaxItems, at \in PutExpireAts, in \in PutExpireIns :
         /\ args' = [i \in 1..n |-> i]
         /\ heap' = [i \in 1..n |-> NewItem(i)]
         /\ items' = [i \in 1..n |-> i]
         /\ expire_at' = at
         /\ expire_in' = in
    /\ client' = "AsyncDetaBase"
    /\ processed' = <<>>
    /\ pc' = "while"
    /\ UNCHANGED <<result, requests, responses, received, now, ttl_calls, restVars>>

(* one turn of the loop up to the request: the slice, insert_ttl on every
   item of the slice (in place, all at one clock reading), and the
   PUT /items request *)
AsyncDetaBase_put_batch ==
    /\ client = "AsyncDetaBase"
    /\ pc = "while"
    /\ truthy(items)
    /\ LET batch_items == batch_of(items)
           refs == {batch_items[i] : i \in DOMAIN batch_items}
           mutated == [a \in DOMAIN heap |->
                          IF a \in refs
                          THEN insert_ttl(heap[a], expire_at, expire_in)
                          ELSE heap[a]]
       IN /\ items' = rest_of(items)
          /\ heap' = mutated
          /\ requests' = Append(requests,
                 [method |-> "PUT", path |-> "/items",
                  items |-> [i \in DOMAIN batch_items |-> mutated[batch_items[i]]]])
    /\ pc' = "request"
    /\ UNCHANGED <<client, args, expire_at, expire_in, processed, result,
                   responses, received, now, ttl_calls, restVars>>

(* the response arrives: _put_batch returns, put extends processed; a
   transport exception leaves put *)
AsyncDetaBase_put_batch_return ==
    /\ client = "AsyncDetaBase"
    /\ pc = "request"
    /\ Len(responses) = Len(requests)
    /\ LET response == responses[Len(responses)]
       IN IF response.raised
          THEN pc' = "raised" /\ UNCHANGED processed
          ELSE /\ processed' = processed \o put_batch_result(response)
               /\ pc' = "while"
    /\ received' = received + 1
    /\ UNCHANGED <<client, args, heap, items, expire_at, expire_in, result,
                   requests, responses, now, ttl_calls, restVars>>

(* the loop ends: return processed *)
AsyncDetaBase_put_return ==
    /\ client = "AsyncDetaBase"
    /\ pc = "while"
    /\ ~truthy(items)
    /\ result' = processed
    /\ pc' = "done"
    /\ UNCHANGED <<client, args, heap, items, expire_at, expire_in, processed,
                   requests, responses, received, now, ttl_calls, restVars>>

(* The remote service answers the oldest unanswered request: any status, with
   a body that lists all the request's items or all but the first as
   processed; or the transport fails (network error, timeout) *)
Statuses == {MULTI_STATUS, 200, 404}
DropFirst(s) == IF s = <<>> THEN <<>> ELSE Tail(s)
ServiceResponses(request) ==
    {[raised |-> FALSE, status |-> st, processed |-> b] :
        st \in Statuses, b \in {request.items, DropFirst(request.items)}}
    \cup {[raised |-> TRUE, status |-> 0, processed |-> <<>>]}

ServiceRespond ==
    /\ Len(responses) < Len(requests)
    /\ requests[Len(responses) + 1].method = "PUT"
    /\ \E r \in ServiceResponses(requests[Len(responses) + 1]) :
         responses' = Append(responses, r)
    /\ UNCHANGED <<client, pc, args, heap, items, expire_at, expire_in,
                   processed, result, requests, received, now, ttl_calls, restVars>>

NextPut ==
    \/ DetaBase_put
    \/ DetaBase_put_batch
    \/ DetaBase_put_batch_return
    \/ DetaBase_put_return
    \/ AsyncDetaBase_put
    \/ AsyncDetaBase_put_batch
    \/ AsyncDetaBase_put_batch_return
    \/ AsyncDetaBase_put_return
    \/ ServiceRespond
    \/ Tick

SpecPut == Init /\ [][NextPut]_vars

----------------------------------------------------------------------------
(* The builder in use.  Two builders are driven by the same calls: builder 1
   through one chained expression b.op(..).op(..)..., each call made on what
   the call before it returned; builder 2 through separate statements
   b.op(..), each made on b itself. *)

MaxOps == 3         \* builder calls made

Fields == {"a", "b"}
KwargsSet ==
    {EmptyDict, SetItem(EmptyDict, "a", 1), SetItem(EmptyDict, "a", 2),
     SetItem(EmptyDict, "b", 1), SetItem(SetItem(EmptyDict, "a", 1), "b", 2)}
ArgsSet == {<<>>, <<"a">>, <<"b">>, <<"a", "a">>, <<"a", "b">>}

(* the builders and the chain after one call, called[a] being builder a
   after the call; a call on None raises and leaves the chained expression
   without a value *)
Chained(called) ==
    /\ builders' = [a \in DOMAIN builders |->
                       IF a = 2 \/ a = chain THEN called[a]
                       ELSE builders[a]]
    /\ chain' = IF chain = 0 THEN 0 ELSE ItemUpdate_return(chain)

Set ==
    /\ Len(ops) < MaxOps
    /\ \E kwargs \in KwargsSet :
         /\ Chained([a \in DOMAIN builders |-> ItemUpdate_set(builders[a], kwargs)])
         /\ ops' = Append(ops, [op |-> "set", kwargs |-> kwargs, args |-> <<>>])
    /\ UNCHANGED <<putVars, now, ttl_calls, body_ref, baseVars>>

Increment ==
    /\ Len(ops) < MaxOps
    /\ \E kwargs \in KwargsSet :
         /\ Chained([a \in DOMAIN builders |-> ItemUpdate_increment(builders[a], kwargs)])
         /\ ops' = Append(ops, [op |-> "increment", kwargs |-> kwargs, args |-> <<>>])
    /\ UNCHANGED <<putVars, now, ttl_calls, body_ref, baseVars>>

AppendTo ==
    /\ Len(ops) < MaxOps
    /\ \E kwargs \in KwargsSet :
         /\ Chained([a \in DOMAIN builders |-> ItemUpdate_append(builders[a], kwargs)])
         /\ ops' = Append(ops, [op |-> "append", kwargs |-> kwargs, args |-> <<>>])
    /\ UNCHANGED <<putVars, now, ttl_calls, body_ref, baseVars>>

Delete ==
    /\ Len(ops) < MaxOps
    /\ \E names \in ArgsSet :
         /\ Chained([a \in DOMAIN builders |-> ItemUpdate_delete(builders[a], names)])
         /\ ops' = Append(ops, [op |-> "delete", kwargs |-> EmptyDict, args |-> names])
    /\ UNCHANGED <<putVars, now, ttl_calls, body_ref, baseVars>>

(* as_json is called on builder 2: the body refers to the builder's own
   dicts and list, so it shows what later calls do to them *)
AsJson ==
    /\ body_ref = 0
    /\ body_ref' = 2
    /\ UNCHANGED <<putVars, now, ttl_calls, builders, chain, ops, baseVars>>

Body == ItemUpdate_as_json(builders[body_ref])

NextUpdate == Set \/ Increment \/ AppendTo \/ Delete \/ AsJson

SpecUpdate == Init /\ [][NextUpdate]_vars

----------------------------------------------------------------------------
(* The single-request operations: get, delete, insert, update and query of
   DetaBase (deta_base/base.py) and of AsyncDetaBase
   (deta_base/async_base.py).  The properties of these operations are about
   one call or about one traversal of the pagination loop, so a behaviour is
   one direct call (received = 0 when it is made), which may change the
   collection, and then at most one traversal. *)

(* one call on the session: one request joins those sent *)
session_request_retried(sent, request) == Append(Append(sent, request), request)

session_request(sent, request) == Append(sent, request)

(* dict.get(name): the entry, or None when there is none *)
dict_get(d, name) == IF name \in DOMAIN d THEN d[name] ELSE NoLast

(* a normalisation that never wraps *)
normalize_query_unwrapped(query) == query

(* `if isinstance(query, dict): query = [query]` *)
normalize_query(query) ==
    IF query.type = "dict" THEN ListQuery(<<query.value>>) ELSE query

(* ---- the blocking client ---- *)

(* a result that trusts the body whatever the status *)
DetaBase_get_result_any_status(response) ==
    [kind |-> "item", value |-> response.body]

(* what get returns for a response that arrived *)
DetaBase_get_result(response) ==
    IF response.status = OK THEN [kind |-> "item", value |-> response.body]
    ELSE ReturnedNone

(* what delete returns for a response that arrived, had it looked at the
   status *)
DetaBase_delete_result_by_status(response) ==
    IF response.status = OK THEN ReturnedNone
    ELSE [kind |-> "bool", value |-> FALSE]

(* what delete returns for a response that arrived: nothing, the response
   is not looked at *)
DetaBase_delete_result(response) == ReturnedNone

(* a body that carries the TTL and drops the item *)
DetaBase_insert_json_ttl_only(item, expires_at, expires_in) ==
    [item |-> insert_ttl(EmptyDict, expires_at, expires_in)]

(* the json of the POST /items request: the item with its TTL *)
DetaBase_insert_json(item, expires_at, expires_in) ==
    [item |-> insert_ttl(item, expires_at, expires_in)]

(* an insert that takes status 200 for success *)
DetaBase_insert_result_on_ok(response) ==
    IF response.status = OK THEN [kind |-> "item", value |-> response.body]
    ELSE ReturnedNone

(* what insert returns for a response that arrived *)
DetaBase_insert_result(response) ==
    IF response.status = CREATED THEN [kind |-> "item", value |-> response.body]
    ELSE ReturnedNone

(* an update that leaves the caller's builder alone *)
DetaBase_update_operations_untouched(operations, expires_at, expires_in) ==
    operations

(* the caller's builder after `operations.set(insert_ttl({}, expire_at,
   expire_in))`, the first statement of update *)
DetaBase_update_operations(operations, expires_at, expires_in) ==
    ItemUpdate_set(operations, insert_ttl(EmptyDict, expires_at, expires_in))

(* an update that reports failure only for a missing key *)
DetaBase_update_result_not_404(response) ==
    [kind |-> "bool", value |-> response.status # 404]

(* what update returns for a response that arrived *)
DetaBase_update_result(response) ==
    [kind |-> "bool", value |-> response.status = OK]

(* a request body that leaves the filter out *)
DetaBase_query_json_unfiltered(query, limit, last) ==
    [query |-> NoQuery, limit |-> limit, last |-> last]

(* the json of the POST /query request *)
DetaBase_query_json(query, limit, last) ==
    [query |-> normalize_query(query), limit |-> limit, last |-> last]

(* a result that trusts the body whatever the status *)
DetaBase_query_result_any_status(response) ==
    [kind |-> "QueryResult",
     value |-> QueryResult(response.body.items, response.body.paging["size"],
                           dict_get(response.body.paging, "last"))]

(* what query returns for a response that arrived *)
DetaBase_query_result(response) ==
    IF response.status = OK
    THEN [kind |-> "QueryResult",
          value |-> QueryResult(response.body.items, response.body.paging["size"],
                                dict_get(response.body.paging, "last"))]
    ELSE [kind |-> "QueryResult", value |-> QueryResult(<<>>, 0, NoLast)]

(* ---- the asyncio client ---- *)

AsyncDetaBase_get_result(response) ==
    IF response.status = OK THEN [kind |-> "item", value |-> response.body]
    ELSE ReturnedNone

AsyncDetaBase_delete_result(response) == ReturnedNone

AsyncDetaBase_insert_json(item, expires_at, expires_in) ==
    [item |-> insert_ttl(item, expires_at, expires_in)]

(* an insert that takes status 200 for success *)
AsyncDetaBase_insert_result_on_ok(response) ==
    IF response.status = OK THEN [kind |-> "item", value |-> response.body]
    ELSE ReturnedNone

AsyncDetaBase_insert_result(response) ==
    IF response.status = CREATED THEN [kind |-> "item", value |-> response.body]
    ELSE ReturnedNone

AsyncDetaBase_update_operations(operations, expires_at, expires_in) ==
    ItemUpdate_set(operations, insert_ttl(EmptyDict, expires_at, expires_in))

AsyncDetaBase_update_result(response) ==
    [kind |-> "bool", value |-> response.status = OK]

AsyncDetaBase_query_json(query, limit, last) ==
    [query |-> normalize_query(query), limit |-> limit, last |-> last]

(* a result that trusts the body whatever the status *)
AsyncDetaBase_query_result_any_status(response) ==
    [kind |-> "QueryResult",
     value |-> QueryResult(response.body.items, response.body.paging["size"],
                           dict_get(response.body.paging, "last"))]

AsyncDetaBase_query_result(response) ==
    IF response.status = OK
    THEN [kind |-> "QueryResult",
          value |-> QueryResult(response.body.items, response.body.paging["size"],
                                dict_get(response.body.paging, "last"))]
    ELSE [kind |-> "QueryResult", value |-> QueryResult(<<>>, 0, NoLast)]

(* ---- what the callers pass ---- *)

Keys == {1, 4}
InsertItems == {KeyedItem(1, 30), KeyedItem(4, 30), SetItem(EmptyDict, "age", 30)}
BaseTtls == {<<None, None>>, <<Number(MaxInstant), None>>, <<None, Number(1)>>}
Queries ==
    {NoQuery,
     DictQuery(SetItem(EmptyDict, "age?gt", 20)),
     ListQuery(<<SetItem(SetItem(EmptyDict, "age?lt", 30), "age?gt", 21)>>),
     ListQuery(<<SetItem(EmptyDict, "age", 20), SetItem(EmptyDict, "age?gt", 21)>>),
     DictQuery(SetItem(EmptyDict, "age?", 30))}
Limits == {1, 2, DEFAULT_LIMIT}
Lasts == {NoLast, 1}
UpdateOperations ==
    {ItemUpdate_init,
     ItemUpdate_set(ItemUpdate_init, SetItem(EmptyDict, "age", 33)),
     ItemUpdate_increment(ItemUpdate_init, SetItem(EmptyDict, "age", 1))}

(* ---- the remote service behind the session ---- *)

ConditionNames == {"age", "age?gt", "age?lt"}

BadQuery(query) ==
    /\ query.type = "list"
    /\ \E i \in DOMAIN query.value :
          \E name \in DOMAIN query.value[i] : name \notin ConditionNames

(* an item meets a condition mapping when it meets every entry of it *)
Matches(item, cond) ==
    /\ "age" \in DOMAIN item
    /\ \A name \in DOMAIN cond :
          CASE name = "age" -> item["age"] = cond[name]
            [] name = "age?gt" -> item["age"] > cond[name]
            [] name = "age?lt" -> item["age"] < cond[name]
            [] OTHER -> FALSE

(* the keys a filter selects: every key without a filter, else the keys of
   the items meeting one of the condition mappings *)
Selected(query, st) ==
    {k \in DOMAIN st :
        \/ query.type = "None"
        \/ \E i \in DOMAIN query.value : Matches(st[k], query.value[i])}

RECURSIVE Ascending(_)
Ascending(S) ==
    IF S = {} THEN <<>>
    ELSE LET least == CHOOSE k \in S : \A other \in S : k <= other
         IN <<least>> \o Ascending(S \ {least})

(* one page: the selected items after the cursor in key order, at most
   limit of them, with the key of the last one as the cursor when more
   remain *)
PageOf(json, st) ==
    LET keys == Ascending({k \in Selected(json.query, st) : k > json.last})
        size == Min(json.limit, Len(keys))
        paging == IF Len(keys) > size
                  THEN SetItem(SetItem(EmptyDict, "size", size), "last", keys[size])
                  ELSE SetItem(EmptyDict, "size", size)
    IN [items |-> [i \in 1..size |-> st[keys[i]]], paging |-> paging]

(* the key the service gives an item that comes without one *)
NewKey(st) == IF st = <<>> THEN 1
              ELSE 1 + CHOOSE k \in DOMAIN st : \A other \in DOMAIN st : other <= k

WithoutKey(st, key) == [k \in DOMAIN st \ {key} |-> st[k]]
WithItem(st, key, item) ==
    [k \in DOMAIN st \cup {key} |-> IF k = key THEN item ELSE st[k]]

(* the stored item after the set, increment and delete operations of a
   PATCH body *)
Patched(item, json) ==
    LET kept == (DOMAIN item \cup DOMAIN json["set"])
                  \ {json["delete"][i] : i \in DOMAIN json["delete"]}
    IN [f \in kept |->
          IF f \in DOMAIN json["set"] THEN json["set"][f]
          ELSE IF f \in DOMAIN json["increment"] THEN item[f] + json["increment"][f]
          ELSE item[f]]

Answer(status, body, st) ==
    [response |-> [raised |-> FALSE, status |-> status, body |-> body],
     store |-> st]

(* the answer of the service when it serves the request *)
Served(request, st) ==
    CASE request.method = "GET" ->
           IF request.key \in DOMAIN st THEN Answer(OK, st[request.key], st)
           ELSE Answer(404, EmptyDict, st)
      [] request.method = "DELETE" ->
           Answer(OK, EmptyDict, WithoutKey(st, request.key))
      [] request.method = "POST" /\ request.path = "/items" ->
           LET item == request.json.item
               key == IF "key" \in DOMAIN item THEN item["key"] ELSE NewKey(st)
               stored == SetItem(item, "key", key)
           IN IF key \in DOMAIN st THEN Answer(409, EmptyDict, st)
              ELSE Answer(CREATED, stored, WithItem(st, key, stored))
      [] request.method = "PATCH" ->
           IF request.key \in DOMAIN st
           THEN Answer(OK, EmptyDict,
                       WithItem(st, request.key, Patched(st[request.key], request.json)))
           ELSE Answer(404, EmptyDict, st)
      [] OTHER ->
           IF BadQuery(request.json.query)
           THEN Answer(400, [items |-> <<>>, paging |-> SetItem(EmptyDict, "size", 0)], st)
           ELSE Answer(OK, PageOf(request.json, st), st)

(* a failure inside the service: the body it would have sent, with status
   500 and nothing stored *)
Failed(request, st) == Answer(500, Served(request, st).response.body, st)

(* the transport fails (network error, timeout): no response at all *)
TransportError(st) ==
    [response |-> [raised |-> TRUE, status |-> 0, body |-> EmptyDict], store |-> st]

(* The service answers the oldest unanswered request of get, delete, insert,
   update or query *)
BaseRespond ==
    /\ Len(responses) < Len(requests)
    /\ LET request == requests[Len(responses) + 1]
       IN /\ request.method # "PUT"
          /\ \E answer \in {Served(request, store), Failed(request, store),
                            TransportError(store)} :
                /\ responses' = Append(responses, answer.response)
                /\ store' = answer.store
    /\ UNCHANGED <<client, pc, args, heap, items, expire_at, expire_in,
                   processed, result, requests, received, now, ttl_calls,
                   updVars, base, call, ret, loop>>

(* ---- the blocking client, deta_base/base.py ---- *)

(* DetaBase.get(key): GET /items/{key} *)
DetaBase_get ==
    /\ base.state = "ok"
    /\ pc \in {"idle", "next"}
    /\ received = 0
    /\ \E key \in Keys :
         /\ call' = [op |-> "get", key |-> key, sent |-> Len(requests)]
         /\ requests' = session_request(requests,
                [method |-> "GET", path |-> "/items/{key}", key |-> key,
                 json |-> EmptyDict])
    /\ client' = "DetaBase"
    /\ pc' = "await"
    /\ ret' = NoRet
    /\ UNCHANGED <<args, heap, items, expire_at, expire_in, processed, result,
                   responses, received, now, ttl_calls, updVars, base, store, loop>>

(* the response arrives: the item on status 200, else None; a transport
   exception leaves get *)
DetaBase_get_return ==
    /\ client = "DetaBase"
    /\ pc = "await"
    /\ call.op = "get"
    /\ Len(responses) > call.sent
    /\ LET response == responses[call.sent + 1]
       IN IF response.raised
          THEN ret' = Raised /\ pc' = "raised"
          ELSE ret' = DetaBase_get_result(response) /\ pc' = "done"
    /\ received' = received + 1
    /\ UNCHANGED <<client, args, heap, items, expire_at, expire_in, processed,
                   result, requests, responses, now, ttl_calls, updVars, base,
                   call, store, loop>>

(* DetaBase.delete(key): DELETE /items/{key} *)
DetaBase_delete ==
    /\ base.state = "ok"
    /\ pc \in {"idle", "next"}
    /\ received = 0
    /\ \E key \in Keys :
         /\ call' = [op |-> "delete", key |-> key, sent |-> Len(requests)]
         /\ requests' = session_request(requests,
                [method |-> "DELETE", path |-> "/items/{key}", key |-> key,
                 json |-> EmptyDict])
    /\ client' = "DetaBase"
    /\ pc' = "await"
    /\ ret' = NoRet
    /\ UNCHANGED <<args, heap, items, expire_at, expire_in, processed, result,
                   responses, received, now, ttl_calls, updVars, base, store, loop>>

(* the response arrives and is not looked at; a transport exception leaves
   delete *)
DetaBase_delete_return ==
    /\ client = "DetaBase"
    /\ pc = "await"
    /\ call.op = "delete"
    /\ Len(responses) > call.sent
    /\ LET response == responses[call.sent + 1]
       IN IF response.raised
          THEN ret' = Raised /\ pc' = "raised"
          ELSE ret' = DetaBase_delete_result(response) /\ pc' = "done"
    /\ received' = received + 1
    /\ UNCHANGED <<client, args, heap, items, expire_at, expire_in, processed,
                   result, requests, responses, now, ttl_calls, updVars, base,
                   call, store, loop>>

(* DetaBase.insert(item, expire_at, expire_in): insert_ttl on the item, then
   POST /items *)
DetaBase_insert ==
    /\ base.state = "ok"
    /\ pc \in {"idle", "next"}
    /\ received = 0
    /\ \E item \in InsertItems, ttl \in BaseTtls :
         /\ call' = [op |-> "insert", item |-> item, expire_at |-> ttl[1],
                     expire_in |-> ttl[2], sent |-> Len(requests)]
         /\ requests' = session_request(requests,
                [method |-> "POST", path |-> "/items", key |-> NoLast,
                 json |-> DetaBase_insert_json(item, ttl[1], ttl[2])])
    /\ client' = "DetaBase"
    /\ pc' = "await"
    /\ ret' = NoRet
    /\ UNCHANGED <<args, heap, items, expire_at, expire_in, processed, result,
                   responses, received, now, ttl_calls, updVars, base, store, loop>>

(* the response arrives: the inserted item on status 201, else None; a
   transport exception leaves insert *)
DetaBase_insert_return ==
    /\ client = "DetaBase"
    /\ pc = "await"
    /\ call.op = "insert"
    /\ Len(responses) > call.sent
    /\ LET response == responses[call.sent + 1]
       IN IF response.raised
          THEN ret' = Raised /\ pc' = "raised"
          ELSE ret' = DetaBase_insert_result(response) /\ pc' = "done"
    /\ received' = received + 1
    /\ UNCHANGED <<client, args, heap, items, expire_at, expire_in, processed,
                   result, requests, responses, now, ttl_calls, updVars, base,
                   call, store, loop>>

(* DetaBase.update(key, operations, expire_at, expire_in): the TTL is set on
   the caller's builder (builder 1), whose as_json is the body of
   PATCH /items/{key} *)
DetaBase_update ==
    /\ base.state = "ok"
    /\ pc \in {"idle", "next"}
    /\ received = 0
    /\ \E key \in Keys, operations \in UpdateOperations \cup {builders[1]},
          ttl \in BaseTtls :
         LET after == DetaBase_update_operations(operations, ttl[1], ttl[2])
         IN /\ builders' = [builders EXCEPT ![1] = after]
            /\ call' = [op |-> "update", key |-> key, operations |-> operations,
                        expire_at |-> ttl[1], expire_in |-> ttl[2],
                        sent |-> Len(requests)]
            /\ requests' = session_request(requests,
                   [method |-> "PATCH", path |-> "/items/{key}", key |-> key,
                    json |-> ItemUpdate_as_json(after)])
    /\ client' = "DetaBase"
    /\ pc' = "await"
    /\ ret' = NoRet
    /\ UNCHANGED <<args, heap, items, expire_at, expire_in, processed, result,
                   responses, received, now, ttl_calls, chain, ops, body_ref,
                   base, store, loop>>

(* the response arrives: whether its status is 200; a transport exception
   leaves update *)
DetaBase_update_return ==
    /\ client = "DetaBase"
    /\ pc = "await"
    /\ call.op = "update"
    /\ Len(responses) > call.sent
    /\ LET response == responses[call.sent + 1]
       IN IF response.raised
          THEN ret' = Raised /\ pc' = "raised"
          ELSE ret' = DetaBase_update_result(response) /\ pc' = "done"
    /\ received' = received + 1
    /\ UNCHANGED <<client, args, heap, items, expire_at, expire_in, processed,
                   result, requests, responses, now, ttl_calls, updVars, base,
                   call, store, loop>>

(* DetaBase.query(query, limit, last): POST /query, called directly with any
   arguments or by the pagination loop with the loop's *)
DetaBase_query ==
    /\ base.state = "ok"
    /\ \E query \in Queries, limit \in Limits,
          last \in Lasts \cup (IF pc = "loop" THEN {loop.last} ELSE {}) :
         /\ \/ pc \in {"idle", "next"} /\ received = 0 /\ last \in Lasts
            \/ /\ pc = "loop"
               /\ loop.client = "DetaBase"
               /\ query = loop.query /\ limit = loop.limit /\ last = loop.last
         /\ call' = [op |-> "query", query |-> query, limit |-> limit,
                     last |-> last, sent |-> Len(requests)]
         /\ requests' = session_request(requests,
                [method |-> "POST", path |-> "/query", key |-> NoLast,
                 json |-> DetaBase_query_json(query, limit, last)])
    /\ client' = "DetaBase"
    /\ pc' = "await"
    /\ ret' = NoRet
    /\ UNCHANGED <<args, heap, items, expire_at, expire_in, processed, result,
                   responses, received, now, ttl_calls, updVars, base, store, loop>>

(* the response arrives: the page on status 200, else an empty result; a
   transport exception leaves query *)
DetaBase_query_return ==
    /\ client = "DetaBase"
    /\ pc = "await"
    /\ call.op = "query"
    /\ Len(responses) > call.sent
    /\ LET response == responses[call.sent + 1]
       IN IF response.raised
          THEN ret' = Raised /\ pc' = "raised"
          ELSE ret' = DetaBase_query_result(response) /\ pc' = "done"
    /\ received' = received + 1
    /\ UNCHANGED <<client, args, heap, items, expire_at, expire_in, processed,
                   result, requests, responses, now, ttl_calls, updVars, base,
                   call, store, loop>>

(* ---- the asyncio client, deta_base/async_base.py ---- *)

(* AsyncDetaBase.get(key): GET /items/{key} *)
AsyncDetaBase_get ==
    /\ base.state = "ok"
    /\ pc \in {"idle", "next"}
    /\ received = 0
    /\ \E key \in Keys :
         /\ call' = [op |-> "get", key |-> key, sent |-> Len(requests)]
         /\ requests' = session_request(requests,
                [method |-> "GET", path |-> "/items/{key}", key |-> key,
                 json |-> EmptyDict])
    /\ client' = "AsyncDetaBase"
    /\ pc' = "await"
    /\ ret' = NoRet
    /\ UNCHANGED <<args, heap, items, expire_at, expire_in, processed, result,
                   responses, received, now, ttl_calls, updVars, base, store, loop>>

(* the response arrives: the item on status 200, else None; a transport
   exception leaves get *)
AsyncDetaBase_get_return ==
    /\ client = "AsyncDetaBase"
    /\ pc = "await"
    /\ call.op = "get"
    /\ Len(responses) > call.sent
    /\ LET response == responses[call.sent + 1]
       IN IF response.raised
          THEN ret' = Raised /\ pc' = "raised"
          ELSE ret' = AsyncDetaBase_get_result(response) /\ pc' = "done"
    /\ received' = received + 1
    /\ UNCHANGED <<client, args, heap, items, expire_at, expire_in, processed,
                   result, requests, responses, now, ttl_calls, updVars, base,
                   call, store, loop>>

(* AsyncDetaBase.delete(key): DELETE /items/{key} *)
AsyncDetaBase_delete ==
    /\ base.state = "ok"
    /\ pc \in {"idle", "next"}
    /\ received = 0
    /\ \E key \in Keys :
         /\ call' = [op |-> "delete", key |-> key, sent |-> Len(requests)]
         /\ requests' = session_request(requests,
                [method |-> "DELETE", path |-> "/items/{key}", key |-> key,
                 json |-> EmptyDict])
    /\ client' = "AsyncDetaBase"
    /\ pc' = "await"
    /\ ret' = NoRet
    /\ UNCHANGED <<args, heap, items, expire_at, expire_in, processed, result,
                   responses, received, now, ttl_calls, updVars, base, store, loop>>

(* the response arrives and is not looked at; a transport exception leaves
   delete *)
AsyncDetaBase_delete_return ==
    /\ client = "AsyncDetaBase"
    /\ pc = "await"
    /\ call.op = "delete"
    /\ Len(responses) > call.sent
    /\ LET response == responses[call.sent + 1]
       IN IF response.raised
          THEN ret' = Raised /\ pc' = "raised"
          ELSE ret' = AsyncDetaBase_delete_result(response) /\ pc' = "done"
    /\ received' = received + 1
    /\ UNCHANGED <<client, args, heap, items, expire_at, expire_in, processed,
                   result, requests, responses, now, ttl_calls, updVars, base,
                   call, store, loop>>

(* AsyncDetaBase.insert(item, expire_at, expire_in): insert_ttl on the item, then
   POST /items *)
AsyncDetaBase_insert ==
    /\ base.state = "ok"
    /\ pc \in {"idle", "next"}
    /\ received = 0
    /\ \E item \in InsertItems, ttl \in BaseTtls :
         /\ call' = [op |-> "insert", item |-> item, expire_at |-> ttl[1],
                     expire_in |-> ttl[2], sent |-> Len(requests)]
         /\ requests' = session_request(requests,
                [method |-> "POST", path |-> "/items", key |-> NoLast,
                 json |-> AsyncDetaBase_insert_json(item, ttl[1], ttl[2])])
    /\ client' = "AsyncDetaBase"
    /\ pc' = "await"
    /\ ret' = NoRet
    /\ UNCHANGED <<args, heap, items, expire_at, expire_in, processed, result,
                   responses, received, now, ttl_calls, updVars, base, store, loop>>

(* the response arrives: the inserted item on status 201, else None; a
   transport exception leaves insert *)
AsyncDetaBase_insert_return ==
    /\ client = "AsyncDetaBase"
    /\ pc = "await"
    /\ call.op = "insert"
    /\ Len(responses) > call.sent
    /\ LET response == responses[call.sent + 1]
       IN IF response.raised
          THEN ret' = Raised /\ pc' = "raised"
          ELSE ret' = AsyncDetaBase_insert_result(response) /\ pc' = "done"
    /\ received' = received + 1
    /\ UNCHANGED <<client, args, heap, items, expire_at, expire_in, processed,
                   result, requests, responses, now, ttl_calls, updVars, base,
                   call, store, loop>>

(* AsyncDetaBase.update(key, operations, expire_at, expire_in): the TTL is set on
   the caller's builder (builder 1), whose as_json is the body of
   PATCH /items/{key} *)
AsyncDetaBase_update ==
    /\ base.state = "ok"
    /\ pc \in {"idle", "next"}
    /\ received = 0
    /\ \E key \in Keys, operations \in UpdateOperations \cup {builders[1]},
          ttl \in BaseTtls :
         LET after == AsyncDetaBase_update_operations(operations, ttl[1], ttl[2])
         IN /\ builders' = [builders EXCEPT ![1] = after]
            /\ call' = [op |-> "update", key |-> key, operations |-> operations,
                        expire_at |-> ttl[1], expire_in |-> ttl[2],
                        sent |-> Len(requests)]
            /\ requests' = session_request(requests,
                   [method |-> "PATCH", path |-> "/items/{key}", key |-> key,
                    json |-> ItemUpdate_as_json(after)])
    /\ client' = "AsyncDetaBase"
    /\ pc' = "await"
    /\ ret' = NoRet
    /\ UNCHANGED <<args, heap, items, expire_at, expire_in, processed, result,
                   responses, received, now, ttl_calls, chain, ops, body_ref,
                   base, store, loop>>

(* the response arrives: whether its status is 200; a transport exception
   leaves update *)
AsyncDetaBase_update_return ==
    /\ client = "AsyncDetaBase"
    /\ pc = "await"
    /\ call.op = "update"
    /\ Len(responses) > call.sent
    /\ LET response == responses[call.sent + 1]
       IN IF response.raised
          THEN ret' = Raised /\ pc' = "raised"
          ELSE ret' = AsyncDetaBase_update_result(response) /\ pc' = "done"
    /\ received' = received + 1
    /\ UNCHANGED <<client, args, heap, items, expire_at, expire_in, processed,
                   result, requests, responses, now, ttl_calls, updVars, base,
                   call, store, loop>>

(* AsyncDetaBase.query(query, limit, last): POST /query, called directly with any
   arguments or by the pagination loop with the loop's *)
AsyncDetaBase_query ==
    /\ base.state = "ok"
    /\ \E query \in Queries, limit \in Limits,
          last \in Lasts \cup (IF pc = "loop" THEN {loop.last} ELSE {}) :
         /\ \/ pc \in {"idle", "next"} /\ received = 0 /\ last \in Lasts
            \/ /\ pc = "loop"
               /\ loop.client = "AsyncDetaBase"
               /\ query = loop.query /\ limit = loop.limit /\ last = loop.last
         /\ call' = [op |-> "query", query |-> query, limit |-> limit,
                     last |-> last, sent |-> Len(requests)]
         /\ requests' = session_request(requests,
                [method |-> "POST", path |-> "/query", key |-> NoLast,
                 json |-> AsyncDetaBase_query_json(query, limit, last)])
    /\ client' = "AsyncDetaBase"
    /\ pc' = "await"
    /\ ret' = NoRet
    /\ UNCHANGED <<args, heap, items, expire_at, expire_in, processed, result,
                   responses, received, now, ttl_calls, updVars, base, store, loop>>

(* the response arrives: the page on status 200, else an empty result; a
   transport exception leaves query *)
AsyncDetaBase_query_return ==
    /\ client = "AsyncDetaBase"
    /\ pc = "await"
    /\ call.op = "query"
    /\ Len(responses) > call.sent
    /\ LET response == responses[call.sent + 1]
       IN IF response.raised
          THEN ret' = Raised /\ pc' = "raised"
          ELSE ret' = AsyncDetaBase_query_result(response) /\ pc' = "done"
    /\ received' = received + 1
    /\ UNCHANGED <<client, args, heap, items, expire_at, expire_in, processed,
                   result, requests, responses, now, ttl_calls, updVars, base,
                   call, store, loop>>

(* ---- the callers ---- *)

(* the caller goes on to its next statement after a call that returned or
   whose exception it caught *)
Again ==
    /\ pc \in {"done", "raised"}
    /\ call.op # "none"
    /\ loop.state = "none"
    /\ pc' = "next"
    /\ call' = NoCall
    /\ ret' = NoRet
    /\ UNCHANGED <<client, args, heap, items, expire_at, expire_in, processed,
                   result, requests, responses, received, now, ttl_calls,
                   updVars, base, store, loop>>

(* The caller's pagination loop:
     res = query(query, limit); items = res.items
     while res.last: res = query(query, limit, last=res.last); items += res.items
   Loop_start fixes the client and the arguments, the query action makes each
   call, Loop_page takes the page and tests the cursor. *)
Loop_start ==
    /\ base.state = "ok"
    /\ pc \in {"idle", "next"}
    /\ loop.state = "none"
    /\ \E c \in {"DetaBase", "AsyncDetaBase"}, query \in Queries, limit \in Limits :
         loop' = [state |-> "running", client |-> c, query |-> query,
                  limit |-> limit, last |-> NoLast, items |-> <<>>,
                  pages |-> 0, first |-> Len(requests)]
    /\ pc' = "loop"
    /\ UNCHANGED <<client, args, heap, items, expire_at, expire_in, processed,
                   result, requests, responses, received, now, ttl_calls,
                   updVars, base, call, ret, store>>

Loop_page ==
    /\ loop.state = "running"
    /\ pc \in {"done", "raised"}
    /\ IF ret.kind = "raised"
       THEN /\ loop' = [loop EXCEPT !.state = "raised"]
            /\ pc' = pc
       ELSE LET res == ret.value
            IN /\ loop' = [loop EXCEPT
                              !.items = @ \o res.items,
                              !.pages = @ + 1,
                              !.last = res.last,
                              !.state = IF res.last # NoLast THEN "running"
                                        ELSE "finished"]
               /\ pc' = IF res.last # NoLast THEN "loop" ELSE "done"
    /\ UNCHANGED <<client, args, heap, items, expire_at, expire_in, processed,
                   result, requests, responses, received, now, ttl_calls,
                   updVars, base, call, ret, store>>

NextBase ==
    \/ DetaBase_get \/ DetaBase_get_return
    \/ DetaBase_delete \/ DetaBase_delete_return
    \/ DetaBase_insert \/ DetaBase_insert_return
    \/ DetaBase_update \/ DetaBase_update_return
    \/ DetaBase_query \/ DetaBase_query_return
    \/ AsyncDetaBase_get \/ AsyncDetaBase_get_return
    \/ AsyncDetaBase_delete \/ AsyncDetaBase_delete_return
    \/ AsyncDetaBase_insert \/ AsyncDetaBase_insert_return
    \/ AsyncDetaBase_update \/ AsyncDetaBase_update_return
    \/ AsyncDetaBase_query \/ AsyncDetaBase_query_return
    \/ DetaBase_put \/ DetaBase_put_batch
    \/ DetaBase_put_batch_return \/ DetaBase_put_return
    \/ AsyncDetaBase_put \/ AsyncDetaBase_put_batch
    \/ AsyncDetaBase_put_batch_return \/ AsyncDetaBase_put_return
    \/ ServiceRespond
    \/ BaseRespond
    \/ Again
    \/ Loop_start
    \/ Loop_page

SpecBase == Init /\ [][NextBase]_vars

(* the caller's code runs on and every request is answered or times out *)
FairSpecBase == SpecBase /\ WF_vars(NextBase)

(* ---- construction ---- *)

(* DetaBase(data_key, base_name) *)
DetaBase_init ==
    /\ base.state = "new"
    /\ \E data_key \in DataKeys : base' = Constructed(data_key)
    /\ client' = "DetaBase"
    /\ UNCHANGED <<pc, args, heap, items, expire_at, expire_in, processed,
                   result, requests, responses, received, now, ttl_calls,
                   updVars, call, ret, store, loop>>

(* AsyncDetaBase(data_key, base_name) *)
AsyncDetaBase_init ==
    /\ base.state = "new"
    /\ \E data_key \in DataKeys : base' = Constructed(data_key)
    /\ client' = "AsyncDetaBase"
    /\ UNCHANGED <<pc, args, heap, items, expire_at, expire_in, processed,
                   result, requests, responses, received, now, ttl_calls,
                   updVars, call, ret, store, loop>>

NextKey ==
    \/ DetaBase_init
    \/ AsyncDetaBase_init
    \/ DetaBase_get \/ DetaBase_get_return
    \/ AsyncDetaBase_get \/ AsyncDetaBase_get_return
    \/ BaseRespond

SpecKey == InitKey /\ [][NextKey]_vars

----------------------------------------------------------------------------
(* Calls in sequence on the stored collection: the same items put twice, an
   item inserted and then got by its key, one builder used for two updates.
   The clock runs between the calls. *)

PutCounts == {1, 2}

(* the collection after the service stored the items of a PUT under their
   keys *)
WithItems(st, its) ==
    LET keys == {its[i]["key"] : i \in DOMAIN its}
    IN [k \in DOMAIN st \cup keys |->
          IF k \in keys THEN its[CHOOSE i \in DOMAIN its : its[i]["key"] = k]
          ELSE st[k]]

(* The service answers the oldest unanswered PUT /items: it stores the items
   and lists them as processed (207), or fails and stores nothing (500), or
   the transport fails *)
PutRespond ==
    /\ Len(responses) < Len(requests)
    /\ LET request == requests[Len(responses) + 1]
       IN /\ request.method = "PUT"
          /\ \/ /\ responses' = Append(responses,
                       [raised |-> FALSE, status |-> MULTI_STATUS,
                        processed |-> request.items])
                /\ store' = WithItems(store, request.items)
             \/ /\ responses' = Append(responses,
                       [raised |-> FALSE, status |-> 500, processed |-> <<>>])
                /\ store' = store
             \/ /\ responses' = Append(responses,
                       [raised |-> TRUE, status |-> 0, processed |-> <<>>])
                /\ store' = store
    /\ UNCHANGED <<client, pc, args, heap, items, expire_at, expire_in,
                   processed, result, requests, received, now, ttl_calls,
                   updVars, base, call, ret, loop>>

(* the caller puts one or two keyed items through either client *)
Put_items ==
    /\ base.state = "ok"
    /\ pc = "idle"
    /\ \E c \in {"DetaBase", "AsyncDetaBase"}, n \in PutCounts,
          at \in PutExpireAts, in \in PutExpireIns :
         /\ client' = c
         /\ args' = [i \in 1..n |-> i]
         /\ heap' = [i \in 1..n |-> NewItem(i)]
         /\ items' = [i \in 1..n |-> i]
         /\ expire_at' = at
         /\ expire_in' = in
    /\ processed' = <<>>
    /\ pc' = "while"
    /\ UNCHANGED <<result, requests, responses, received, now, ttl_calls, restVars>>

(* the caller puts the same dicts again, with the same TTL arguments, through
   the same client *)
Put_again ==
    /\ pc = "done"
    /\ call.op = "none"
    /\ args # <<>>
    /\ items' = args
    /\ processed' = <<>>
    /\ pc' = "while"
    /\ call' = [op |-> "put", sent |-> Len(requests), before |-> store]
    /\ UNCHANGED <<client, args, heap, expire_at, expire_in, result, requests,
                   responses, received, now, ttl_calls, updVars, base, ret,
                   store, loop>>

(* the caller gets the item it has just inserted, by the key of the item
   insert returned *)
Get_inserted ==
    /\ pc = "done"
    /\ call.op = "insert"
    /\ ret.kind = "item"
    /\ call' = [op |-> "get", key |-> ret.value["key"], sent |-> Len(requests),
                first |-> call, inserted |-> ret.value]
    /\ requests' = session_request(requests,
           [method |-> "GET", path |-> "/items/{key}", key |-> ret.value["key"],
            json |-> EmptyDict])
    /\ pc' = "await"
    /\ ret' = NoRet
    /\ UNCHANGED <<client, args, heap, items, expire_at, expire_in, processed,
                   result, responses, received, now, ttl_calls, updVars, base,
                   store, loop>>

(* the caller updates again with the builder of its first update, through the
   same client *)
Update_again ==
    /\ pc = "done"
    /\ call.op = "update"
    /\ "first" \notin DOMAIN call
    /\ \E key \in Keys, ttl \in BaseTtls :
         LET operations == builders[1]
             after == IF client = "DetaBase"
                      THEN DetaBase_update_operations(operations, ttl[1], ttl[2])
                      ELSE AsyncDetaBase_update_operations(operations, ttl[1], ttl[2])
         IN /\ builders' = [builders EXCEPT ![1] = after]
            /\ call' = [op |-> "update", key |-> key, operations |-> operations,
                        expire_at |-> ttl[1], expire_in |-> ttl[2],
                        sent |-> Len(requests), first |-> call]
            /\ requests' = session_request(requests,
                   [method |-> "PATCH", path |-> "/items/{key}", key |-> key,
                    json |-> ItemUpdate_as_json(after)])
    /\ pc' = "await"
    /\ ret' = NoRet
    /\ UNCHANGED <<client, args, heap, items, expire_at, expire_in, processed,
                   result, responses, received, now, ttl_calls, chain, ops,
                   body_ref, base, store, loop>>

NextStore ==
    \/ Put_items
    \/ DetaBase_put_batch \/ DetaBase_put_batch_return \/ DetaBase_put_return
    \/ AsyncDetaBase_put_batch \/ AsyncDetaBase_put_batch_return
    \/ AsyncDetaBase_put_return
    \/ Put_again
    \/ PutRespond
    \/ DetaBase_insert \/ DetaBase_insert_return
    \/ AsyncDetaBase_insert \/ AsyncDetaBase_insert_return
    \/ Get_inserted
    \/ DetaBase_get_return \/ AsyncDetaBase_get_return
    \/ DetaBase_update \/ DetaBase_update_return
    \/ AsyncDetaBase_update \/ AsyncDetaBase_update_return
    \/ Update_again
    \/ BaseRespond
    \/ Tick

SpecStore == Init /\ [][NextStore]_vars

----------------------------------------------------------------------------
(* Properties of the batch putter *)

Called == pc # "idle"
NumChunks(n) == (n + ITEMS_BATCH_SIZE - 1) \div ITEMS_BATCH_SIZE
InFlight == Len(requests) - received

(* the caller's dicts as they are now, in the order they were passed *)
CallerItems == [i \in 1..Len(args) |-> heap[args[i]]]

(* the items of the requests, in send order *)
RECURSIVE SentItems(_)
SentItems(reqs) ==
    IF reqs = <<>> THEN <<>>
    ELSE SentItems(SubSeq(reqs, 1, Len(reqs) - 1)) \o reqs[Len(reqs)].items

(* the processed items of the responses with status 207, in response order *)
RECURSIVE Processed207(_)
Processed207(resps) ==
    IF resps = <<>> THEN <<>>
    ELSE Processed207(SubSeq(resps, 1, Len(resps) - 1))
            \o (IF resps[Len(resps)].status = 207
                THEN resps[Len(resps)].processed ELSE <<>>)

AllEchoed ==
    /\ Len(responses) = Len(requests)
    /\ \A k \in DOMAIN responses :
          /\ ~responses[k].raised
          /\ responses[k].status = 207
          /\ responses[k].processed = requests[k].items

\* C1: for every input of N items, put (of either client) issues exactly
\* ceil(N/25) write requests, one per chunk of the items consumed so far,
\* whatever status each request returns.
C1_OneRequestPerChunk ==
    Called =>
        /\ Len(requests) = NumChunks(Len(args) - Len(items))
        /\ Len(requests) <= NumChunks(Len(args))
        /\ pc = "done" => Len(requests) = NumChunks(Len(args))

C1_Witness ==
    /\ client = "AsyncDetaBase"
    /\ pc = "done"
    /\ Len(args) = 2 * ITEMS_BATCH_SIZE + 1
    /\ Len(requests) = 3
    /\ responses[1].status = 404
    /\ responses[2].status = 200
    /\ responses[3].status = 207

\* C2: the chunks put sends are consecutive slices of the input: each holds
\* between 1 and 25 items, every chunk except the last holds exactly 25, the
\* chunks in send order concatenate to the input; and when every chunk
\* succeeds and the service echoes each chunk, put returns the input in order.
C2_ChunksAreConsecutiveSlices ==
    Called =>
        /\ \A k \in DOMAIN requests :
              /\ Len(requests[k].items) >= 1
              /\ Len(requests[k].items) <= ITEMS_BATCH_SIZE
              /\ k < Len(requests) => Len(requests[k].items) = ITEMS_BATCH_SIZE
        /\ SentItems(requests) = SubSeq(CallerItems, 1, Len(args) - Len(items))
        /\ pc = "done" => SentItems(requests) = CallerItems
        /\ (pc = "done" /\ AllEchoed) =>
              /\ result = CallerItems
              /\ \A i \in DOMAIN result : result[i]["key"] = i

C2_Witness ==
    /\ client = "DetaBase"
    /\ pc = "done"
    /\ AllEchoed
    /\ Len(args) = 2 * ITEMS_BATCH_SIZE + 1
    /\ Len(requests[3].items) = 1
    /\ expire_in # None
    /\ result = CallerItems

\* C3: a chunk whose request returns a status other than 207 adds no item
\* to the result and raises no error, and the remaining chunks are still
\* sent: put returns the processed items of exactly the 207 responses, in
\* chunk order.
C3_FailedChunkContributesNothing ==
    /\ pc \in {"while", "request", "done"} =>
          processed = Processed207(SubSeq(responses, 1, received))
    /\ pc = "done" =>
          /\ result = Processed207(responses)
          /\ Len(requests) = NumChunks(Len(args))
    /\ pc = "raised" => responses[received].raised

C3_Witness ==
    /\ pc = "done"
    /\ Len(requests) = 3
    /\ responses[1].status = 404 /\ responses[1].processed # <<>>
    /\ responses[2].status = 207 /\ responses[2].processed # <<>>
    /\ responses[3].status = 200 /\ responses[3].processed # <<>>
    /\ result = responses[2].processed

\* C4: the async client dispatches the chunk requests of a put of more than
\* 25 items concurrently: when the response of the first chunk is taken, the
\* request of the second chunk has already been sent.
C4_AsyncDispatchesConcurrently ==
    (client = "AsyncDetaBase" /\ Len(args) > ITEMS_BATCH_SIZE /\ received >= 1)
        => Len(requests) >= 2

(* what the code does instead: a request is sent only after the response to
   the one before it was taken *)
AtMostOneInFlight == InFlight <= 1

\* C5: put called with no item issues no request and returns an empty list.
C5_EmptyPutSendsNothing ==
    (Called /\ Len(args) = 0) =>
        /\ Len(requests) = 0
        /\ pc \in {"while", "done"}
        /\ pc = "done" => result = <<>>

C5_Witness ==
    /\ pc = "done"
    /\ Len(args) = 0
    /\ Len(requests) = 0
    /\ result = <<>>

----------------------------------------------------------------------------
(* Properties of the update-operation builder, stated of builder 2 (the one
   driven by separate statements) and of the calls recorded in ops *)

Categories == {"set", "increment", "append", "delete"}
Serialized == ItemUpdate_as_json(builders[2])
MaxOf(S) == CHOOSE x \in S : \A y \in S : y <= x

(* the calls of category c that named field f *)
Naming(c, f) == {i \in DOMAIN ops : ops[i].op = c /\ f \in DOMAIN ops[i].kwargs}

(* the names given to the delete calls, in call order *)
RECURSIVE DeletedNames(_)
DeletedNames(calls) ==
    IF calls = <<>> THEN <<>>
    ELSE DeletedNames(SubSeq(calls, 1, Len(calls) - 1))
            \o (IF calls[Len(calls)].op = "delete" THEN calls[Len(calls)].args ELSE <<>>)

\* C11: for each of the categories set, increment and append, the value
\* serialized for a field is the one given by the most recent call of that
\* category that named the field; a field no call of the category named is
\* absent, and a field named only by earlier calls keeps its value.
C11_LastWriteWins ==
    \A c \in {"set", "increment", "append"}, f \in Fields :
        IF Naming(c, f) = {}
        THEN f \notin DOMAIN Serialized[c]
        ELSE /\ f \in DOMAIN Serialized[c]
             /\ Serialized[c][f] = ops[MaxOf(Naming(c, f))].kwargs[f]

C11_Witness ==
    \E c \in {"set", "increment", "append"}, i, j \in DOMAIN ops :
        /\ i < j /\ ops[i].op = c /\ ops[j].op = c
        /\ DOMAIN ops[i].kwargs = {"a", "b"} /\ DOMAIN ops[j].kwargs = {"a"}
        /\ ops[i].kwargs["a"] # ops[j].kwargs["a"]
        /\ Naming(c, "a") = {i, j} /\ Naming(c, "b") = {i}
        /\ Serialized[c]["a"] = ops[j].kwargs["a"]
        /\ Serialized[c]["b"] = ops[i].kwargs["b"]

\* C12 (as stated): after any sequence of delete calls the delete category
\* holds each field name at most once.
C12_DeleteHoldsEachNameOnce ==
    \A i, j \in DOMAIN Serialized["delete"] :
        i # j => Serialized["delete"][i] # Serialized["delete"][j]

\* C12 (amended): the delete category is a list: it holds every field name
\* given to the delete calls, in call order, once for each time it was given.
C12_DeleteListsEveryName ==
    Serialized["delete"] = DeletedNames(ops)

C12_Witness ==
    \E i, j \in DOMAIN ops :
        /\ i < j
        /\ ops[i].op = "delete" /\ ops[i].args = <<"a", "a">>
        /\ ops[j].op = "delete" /\ ops[j].args = <<"a", "b">>
        /\ Serialized["delete"] = <<"a", "a", "a", "b">>

\* C13: after any sequence of builder calls (none included) as_json returns
\* a body with exactly the keys set, increment, append and delete, and a
\* category no call used is an empty mapping (an empty list for delete).
C13_FixedShapeBody ==
    body_ref # 0 =>
        /\ DOMAIN Body = Categories
        /\ \A c \in Categories :
              (\A i \in DOMAIN ops : ops[i].op # c) =>
                  IF c = "delete" THEN Len(Body[c]) = 0 ELSE DOMAIN Body[c] = {}

C13_Witness ==
    /\ body_ref # 0
    /\ DOMAIN Body = Categories
    /\ \A i \in DOMAIN ops : ops[i].op = "increment"
    /\ DOMAIN Body["increment"] = {"a", "b"}
    /\ DOMAIN Body["set"] = {} /\ Len(Body["delete"]) = 0

\* C14: each builder call changes only its own category and leaves the other
\* three as they were, also when they hold the fields the call names.
C14_OtherCategoriesUnchanged ==
    [][Len(ops') = Len(ops) + 1 =>
          \A c \in Categories \ {ops'[Len(ops')].op} :
              ItemUpdate_as_json(builders'[2])[c] = ItemUpdate_as_json(builders[2])[c]]_vars

(* one field in all four categories at once *)
C14_Witness ==
    /\ ops # <<>>
    /\ ops[Len(ops)].op = "set" /\ "a" \in DOMAIN ops[Len(ops)].kwargs
    /\ "a" \in DOMAIN Serialized["set"]
    /\ "a" \in DOMAIN Serialized["increment"]
    /\ \E i \in DOMAIN Serialized["delete"] : Serialized["delete"][i] = "a"

\* C15: every mutating call returns the builder it was called on, so the
\* builder driven by one chained expression is in the same state, and
\* serializes to the same body, as the builder driven by the same calls made
\* as separate statements.
C15_ChainedEqualsSeparate ==
    /\ chain = 1
    /\ builders[1] = builders[2]
    /\ ItemUpdate_as_json(builders[1]) = Serialized

C15_Witness ==
    /\ Len(ops) >= 3
    /\ ops[1].op = "set" /\ ops[1].kwargs # EmptyDict
    /\ ops[2].op = "increment" /\ ops[2].kwargs # EmptyDict
    /\ ops[3].op = "delete" /\ ops[3].args # <<>>
    /\ chain = 1
    /\ builders[1] = builders[2]

----------------------------------------------------------------------------
(* Properties of the TTL inserter, over the recorded insert_ttl calls *)

Calls == {ttl_calls[i] : i \in DOMAIN ttl_calls}
HasTtl(c) == TTL_ATTRIBUTE \in DOMAIN c.result
Ttl(c) == c.result[TTL_ATTRIBUTE]
Whole(n) == n.ticks % SubSecond = 0
SameSecond(a, b) == a.type = b.type /\ a.ticks \div SubSecond = b.ticks \div SubSecond
OnlyRelative(c) == c.expires_at = None /\ c.expires_in # None

\* C6 (as stated): whenever insert_ttl is given an absolute expiration (a
\* datetime or a number) or a relative duration, the TTL field of the returned
\* item holds a whole number of seconds.
C6_TtlAlwaysWhole ==
    \A c \in Calls :
        (c.expires_at # None \/ c.expires_in # None)
            => HasTtl(c) /\ Ttl(c).type = "number" /\ Whole(Ttl(c))

\* C6 (amended): given an absolute expiration as a datetime, or only a relative
\* duration, the TTL field holds a whole number of seconds; a numeric absolute
\* expiration is stored exactly as given, fraction included.
C6_TtlWholeUnlessNumeric ==
    \A c \in Calls :
        /\ (c.expires_at.type = "datetime" \/ OnlyRelative(c))
              => HasTtl(c) /\ Ttl(c).type = "number" /\ Whole(Ttl(c))
        /\ c.expires_at.type = "number"
              => HasTtl(c) /\ Ttl(c) = c.expires_at

C6_Witness ==
    \E c, d \in Calls :
        /\ c.expires_at.type = "datetime" /\ ~Whole(c.expires_at) /\ HasTtl(c)
        /\ OnlyRelative(d) /\ ~Whole(Number(d.now + d.expires_in.ticks)) /\ HasTtl(d)

\* C7 (as stated): for every absolute expiration T, insert_ttl with T and
\* insert_ttl with T truncated to the whole second store the same TTL.
C7_SubSecondIgnored ==
    \A c, d \in Calls :
        (c.expires_at # None /\ SameSecond(c.expires_at, d.expires_at)
            /\ Whole(d.expires_at))
            => Ttl(c) = Ttl(d)

\* C7 (amended): for every absolute expiration T given as a datetime,
\* insert_ttl with T and insert_ttl with T truncated to the whole second store
\* the same TTL.
C7_DatetimeSubSecondIgnored ==
    \A c, d \in Calls :
        (c.expires_at.type = "datetime" /\ SameSecond(c.expires_at, d.expires_at)
            /\ Whole(d.expires_at))
            => Ttl(c) = Ttl(d)

C7_Witness ==
    \E c, d \in Calls :
        /\ c.expires_at.type = "datetime" /\ ~Whole(c.expires_at)
        /\ SameSecond(c.expires_at, d.expires_at) /\ Whole(d.expires_at)
        /\ HasTtl(c) /\ HasTtl(d)

\* C8: when both an absolute expiration and a relative duration are given,
\* the stored TTL is the one a call with the same absolute expiration stores,
\* whatever that call's relative duration (none included) and clock reading.
C8_AbsoluteTakesPrecedence ==
    \A c, d \in Calls :
        (c.expires_at # None /\ c.expires_in # None /\ d.expires_at = c.expires_at)
            => HasTtl(c) /\ HasTtl(d) /\ Ttl(c) = Ttl(d)

C8_Witness ==
    \E c, d \in Calls :
        /\ c.expires_at # None /\ c.expires_in # None
        /\ d.expires_at = c.expires_at /\ d.expires_in = None
        /\ d.now # c.now
        /\ Ttl(c) = Ttl(d)

\* C9: when neither an absolute expiration nor a relative duration is given,
\* insert_ttl returns the item with every field unchanged: no TTL field is
\* added and a TTL field already present keeps its value.
C9_NoExpirationNoChange ==
    \A c \in Calls :
        (c.expires_at = None /\ c.expires_in = None) => c.result = c.item

C9_Witness ==
    \E c, d \in Calls :
        /\ c.expires_at = None /\ c.expires_in = None
        /\ TTL_ATTRIBUTE \in DOMAIN c.item /\ c.result = c.item
        /\ d.expires_at = None /\ d.expires_in = None
        /\ TTL_ATTRIBUTE \notin DOMAIN d.item /\ ~HasTtl(d)

\* C10: when only a relative duration is given, the stored TTL is the clock
\* reading plus the duration, truncated to the whole second (as seconds since
\* the epoch), and a numeric count of seconds gives the same TTL as the
\* timedelta of that many seconds at the same clock reading.
C10_RelativeTtl ==
    /\ \A c \in Calls :
          OnlyRelative(c) =>
              /\ HasTtl(c)
              /\ Ttl(c) = Number(((c.now + c.expires_in.ticks) \div SubSecond) * SubSecond
                                 - UtcOffset * SubSecond)
    /\ \A c, d \in Calls :
          (OnlyRelative(c) /\ OnlyRelative(d) /\ c.now = d.now
              /\ c.expires_in.type = "number" /\ d.expires_in.type = "timedelta"
              /\ c.expires_in.ticks = d.expires_in.ticks)
              => Ttl(c) = Ttl(d)

C10_Witness ==
    \E c, d \in Calls :
        /\ OnlyRelative(c) /\ OnlyRelative(d) /\ c.now = d.now
        /\ c.expires_in.type = "number" /\ d.expires_in.type = "timedelta"
        /\ c.expires_in.ticks = d.expires_in.ticks
        /\ ~Whole(c.expires_in) /\ ~Whole(Number(c.now))
        /\ Ttl(c) = Ttl(d)

----------------------------------------------------------------------------
(* Properties of the key parser and the constructors *)

(* where the separator stands in a data key *)
Separators(data_key) == {i \in DOMAIN data_key : data_key[i] = "_"}

TheSeparator(data_key) == CHOOSE i \in Separators(data_key) : TRUE

(* C19, as stated: parse_data_key succeeds only for a credential with exactly
   one separator and a non-empty part on each side of it. *)
C19_SucceedsOnlyWithTwoNonEmptyParts ==
    base.state = "ok" =>
        /\ Cardinality(Separators(base.data_key)) = 1
        /\ 1 < TheSeparator(base.data_key)
        /\ TheSeparator(base.data_key) < Len(base.data_key)

(* C19, as the code has it: parse_data_key succeeds exactly for a credential
   that contains the separator exactly once, whether or not the parts around
   it are empty, and returns the part before it as the project identifier and
   the part after it as the project secret; for every other credential the
   constructor raises, and no request is ever issued. *)
C19_SucceedsExactlyWithOneSeparator ==
    base.state # "new" =>
        LET data_key == base.data_key
            parsed == parse_data_key(data_key)
        IN /\ base.state = "ok" <=> Cardinality(Separators(data_key)) = 1
           /\ base.state = "ok" <=> ~parsed.raised
           /\ base.state = "ok" =>
                 /\ parsed.project_id = SubSeq(data_key, 1, TheSeparator(data_key) - 1)
                 /\ parsed.project_key =
                       SubSeq(data_key, TheSeparator(data_key) + 1, Len(data_key))
                 /\ base.project_id = parsed.project_id
           /\ base.state = "raised" => requests = <<>> /\ pc = "idle"

(* a client made from a key with an empty secret has sent a request, and
   constructors have raised for a key without a separator and for one with
   two *)
C19_Witness ==
    /\ base.state = "ok"
    /\ base.data_key = <<"a", "_">>
    /\ requests # <<>>
    /\ Constructed(<<"a", "b">>).state = "raised"
    /\ Constructed(<<"a", "_", "b", "_">>).state = "raised"

----------------------------------------------------------------------------
(* Properties of get, delete, insert, update and query *)

(* the response to the request of the call under way or just finished *)
TheResponse == responses[call.sent + 1]
Finished(op) == call.op = op /\ pc \in {"done", "raised"}
EmptyResult == [kind |-> "QueryResult", value |-> QueryResult(<<>>, 0, NoLast)]

(* a put was called: in SpecBase put is the only call that leaves call
   unset *)
PutCalled ==
    \/ pc \in {"while", "request"}
    \/ pc \in {"done", "raised"} /\ call.op = "none"

(* the responses to the requests of the pagination loop *)
LoopResponses == {responses[i] : i \in (loop.first + 1)..Len(responses)}
AllOk == \A response \in LoopResponses : ~response.raised /\ response.status = OK

(* the stored items the loop's filter selects *)
MatchingItems == {store[k] : k \in Selected(normalize_query(loop.query), store)}
YieldedItems == {loop.items[i] : i \in DOMAIN loop.items}
YieldsExactlyTheMatchingItems ==
    /\ YieldedItems = MatchingItems
    /\ Len(loop.items) = Cardinality(MatchingItems)

(* C16, as stated: the pagination loop ends having yielded exactly the items
   matching the filter, each exactly once. *)
C16_LoopYieldsEveryMatchingItemOnce ==
    loop.state = "finished" => YieldsExactlyTheMatchingItems

(* C16, as the code has it: the pagination loop always ends, by a null
   cursor or by a transport exception, after at most one call per stored
   item and one more; when every request of the loop was answered with
   status 200 it has then yielded exactly the items matching the filter,
   each exactly once.  (A request answered otherwise ends the loop with the
   items of the earlier pages only.) *)
C16_LoopEndsAndYieldsMatchingItemsWhenAllOk ==
    /\ [](loop.state # "none" => loop.pages <= Cardinality(DOMAIN store) + 1)
    /\ []((loop.state = "finished" /\ AllOk) => YieldsExactlyTheMatchingItems)
    /\ (loop.state = "running") ~> (loop.state \in {"finished", "raised"})

(* a filtered traversal of two pages, every request answered 200 *)
C16_Witness ==
    /\ loop.state = "finished"
    /\ AllOk
    /\ loop.query.type = "dict"
    /\ loop.limit = 1
    /\ loop.pages = 2
    /\ Len(loop.items) = 2

(* C17: on a response whose status is not 200, query (of either client)
   returns a QueryResult with no items, count 0 and a null cursor and raises
   nothing; on status 200 it returns the response's items, its paging size
   as count and its paging cursor, null when the response has none. *)
C17_QueryResultFollowsTheStatus ==
    Finished("query") =>
        /\ pc = "raised" <=> TheResponse.raised
        /\ (pc = "done" /\ TheResponse.status # OK) => ret = EmptyResult
        /\ (pc = "done" /\ TheResponse.status = OK) =>
              /\ ret.kind = "QueryResult"
              /\ ret.value.items = TheResponse.body.items
              /\ ret.value.count = TheResponse.body.paging["size"]
              /\ "last" \in DOMAIN TheResponse.body.paging =>
                    ret.value.last = TheResponse.body.paging["last"]
              /\ "last" \notin DOMAIN TheResponse.body.paging =>
                    ret.value.last = NoLast

(* a failed query whose response carried a page all the same *)
C17_Witness ==
    /\ Finished("query")
    /\ pc = "done"
    /\ TheResponse.status = 500
    /\ TheResponse.body.items # <<>>
    /\ "last" \in DOMAIN TheResponse.body.paging
    /\ ret = EmptyResult

Non2xx(status) == status < 200 \/ status > 299

(* a response with a non-2xx status gives the negative result *)
FailureStatusSwallowed ==
    /\ \A op \in {"get", "delete", "insert", "update", "query"} :
          (Finished(op) /\ ~TheResponse.raised /\ Non2xx(TheResponse.status)) =>
              /\ pc = "done"
              /\ op \in {"get", "insert", "delete"} => ret = ReturnedNone
              /\ op = "update" => ret = [kind |-> "bool", value |-> FALSE]
              /\ op = "query" => ret = EmptyResult
    /\ (PutCalled /\ pc = "done"
          /\ \E i \in DOMAIN responses : Non2xx(responses[i].status)) =>
              Len(result) < Len(args)

(* C18, as stated: no failure of the transport, be it a network error, a
   timeout or a non-2xx status, reaches the caller as an exception. *)
C18_NoFailurePropagates ==
    /\ FailureStatusSwallowed
    /\ pc # "raised"

(* C18, as the code has it: a non-2xx status never reaches the caller as an
   exception (get and insert return None, update returns False, query
   returns an empty QueryResult, put returns a shorter list), but a network
   error or a timeout raised by the transport is not caught: it leaves the
   call as an exception, exactly when the transport raised. *)
C18_OnlyTransportExceptionsPropagate ==
    /\ FailureStatusSwallowed
    /\ \A op \in {"get", "delete", "insert", "update", "query"} :
          Finished(op) => (pc = "raised" <=> TheResponse.raised)
    /\ PutCalled =>
          /\ pc = "raised" => responses[received].raised
          /\ pc # "raised" => \A i \in 1..received : ~responses[i].raised

(* a timeout of get reaches the caller *)
C18_Witness ==
    /\ Finished("get")
    /\ TheResponse.raised
    /\ pc = "raised"
    /\ ret = Raised

(* C20: every invocation of get, delete, insert, update and query has issued
   exactly one request, whatever the response was and also when the response
   names a further page; put has issued one request per chunk consumed; no
   request beyond the answered ones is outstanding but the one under way. *)
C20_OneRequestPerInvocation ==
    /\ call.op # "none" => Len(requests) = call.sent + 1
    /\ PutCalled =>
          /\ Len(requests) = NumChunks(Len(args) - Len(items))
          /\ pc = "done" => Len(requests) = NumChunks(Len(args))
    /\ Len(requests) <= received + 1

(* a failed query and a page with a cursor, each followed by no request *)
C20_Witness ==
    /\ Finished("query")
    /\ pc = "done"
    /\ loop.state = "none"
    /\ TheResponse.status = 500
    /\ "last" \in DOMAIN TheResponse.body.paging
    /\ Len(requests) = call.sent + 1

----------------------------------------------------------------------------
(* Properties of single calls on the stored collection.  In SpecBase the
   direct call is the first call, so the collection it finds is
   InitialStore. *)

TheRequest == requests[call.sent + 1]
Answered(op) == Finished(op) /\ ~TheResponse.raised
Stored(key) == key \in DOMAIN InitialStore

(* the collection is InitialStore but for the item under key *)
OnlyChangedAt(key) ==
    \A k \in (DOMAIN store \cup DOMAIN InitialStore) \ {key} :
        k \in DOMAIN store /\ k \in DOMAIN InitialStore /\ store[k] = InitialStore[k]

(* C22: insert is conditional.  Inserting an item whose key is not stored,
   answered 201, returns the inserted item, which is then stored under its
   key; inserting an item whose key is already stored returns None, raises
   nothing and leaves the stored item, and the whole collection, as it
   was. *)
C22_InsertIsConditional ==
    Answered("insert") =>
        /\ pc = "done"
        /\ TheResponse.status = CREATED =>
              /\ ret = [kind |-> "item", value |-> TheResponse.body]
              /\ \A f \in DOMAIN TheRequest.json.item :
                    ret.value[f] = TheRequest.json.item[f]
              /\ ret.value["key"] \notin DOMAIN InitialStore
              /\ store[ret.value["key"]] = ret.value
              /\ OnlyChangedAt(ret.value["key"])
        /\ TheResponse.status # CREATED => ret = ReturnedNone
        /\ ("key" \in DOMAIN call.item /\ Stored(call.item["key"])) =>
              /\ TheResponse.status # CREATED
              /\ ret = ReturnedNone
              /\ store = InitialStore

(* an insert under a stored key, refused with 409 *)
C22_Witness ==
    /\ Answered("insert")
    /\ call.item = KeyedItem(1, 30)
    /\ TheResponse.status = 409
    /\ ret = ReturnedNone
    /\ store = InitialStore
    /\ store[1]["age"] = 20

(* C23: delete of a key that is not stored raises nothing and leaves the
   collection unchanged; delete of a stored key, once served, removes exactly
   that item and leaves every other item unchanged; delete returns nothing
   whatever the status of the response. *)
C23_DeleteRemovesOnlyItsKey ==
    Answered("delete") =>
        /\ pc = "done"
        /\ ret = ReturnedNone
        /\ ~Stored(call.key) => store = InitialStore
        /\ (Stored(call.key) /\ TheResponse.status = OK) =>
              call.key \notin DOMAIN store
        /\ OnlyChangedAt(call.key)

(* a stored key deleted, the other two items left *)
C23_Witness ==
    /\ Answered("delete")
    /\ call.key = 1
    /\ TheResponse.status = OK
    /\ DOMAIN store = {2, 3}
    /\ ret = ReturnedNone

(* C25: query sends a filter given as one condition mapping as a one-element
   sequence holding it, a filter given as a sequence unchanged, and no filter
   as null; the limit sent is the caller's (1000 by default) and the cursor
   sent is the caller's (null by default). *)
C25_QueryRequestCarriesTheArguments ==
    call.op = "query" =>
        /\ TheRequest.method = "POST"
        /\ TheRequest.path = "/query"
        /\ call.query.type = "dict" =>
              /\ TheRequest.json.query.type = "list"
              /\ TheRequest.json.query.value = <<call.query.value>>
        /\ call.query.type = "list" => TheRequest.json.query = call.query
        /\ call.query.type = "None" => TheRequest.json.query.type = "None"
        /\ TheRequest.json.limit = call.limit
        /\ TheRequest.json.last = call.last

(* one mapping, default limit and default cursor *)
C25_Witness ==
    /\ call.op = "query"
    /\ client = "AsyncDetaBase"
    /\ call.query.type = "dict"
    /\ call.limit = DEFAULT_LIMIT
    /\ call.last = NoLast
    /\ Len(TheRequest.json.query.value) = 1
    /\ TheRequest.json.limit = 1000

(* C26: get returns the response's item exactly when the status is 200 and
   None for every other status; update returns True exactly when the status
   is 200; a missing key (404) and a failed request (500) therefore give the
   same result, and neither changes the stored collection. *)
C26_GetAndUpdateFollowTheStatus ==
    /\ Answered("get") =>
          /\ pc = "done"
          /\ TheResponse.status = OK => ret = [kind |-> "item", value |-> TheResponse.body]
          /\ TheResponse.status # OK => ret = ReturnedNone
          /\ store = InitialStore
    /\ Answered("update") =>
          /\ pc = "done"
          /\ ret = [kind |-> "bool", value |-> TheResponse.status = OK]
          /\ TheResponse.status # OK => store = InitialStore
          /\ ~Stored(call.key) => TheResponse.status # OK

(* an update of a stored key that failed *)
C26_Witness ==
    /\ Answered("update")
    /\ Stored(call.key)
    /\ TheResponse.status = 500
    /\ ret = [kind |-> "bool", value |-> FALSE]
    /\ store = InitialStore

----------------------------------------------------------------------------
(* The two clients compared.  What a call sends and returns is stated as a
   function of the call's arguments and of the responses alone, with no
   mention of the client that made it. *)

ExpectedRequest ==
    CASE call.op = "get" ->
           [method |-> "GET", path |-> "/items/{key}", key |-> call.key,
            json |-> EmptyDict]
      [] call.op = "delete" ->
           [method |-> "DELETE", path |-> "/items/{key}", key |-> call.key,
            json |-> EmptyDict]
      [] call.op = "insert" ->
           [method |-> "POST", path |-> "/items", key |-> NoLast,
            json |-> [item |-> insert_ttl(call.item, call.expire_at, call.expire_in)]]
      [] call.op = "update" ->
           [method |-> "PATCH", path |-> "/items/{key}", key |-> call.key,
            json |-> ItemUpdate_as_json(
                        ItemUpdate_set(call.operations,
                                       insert_ttl(EmptyDict, call.expire_at,
                                                  call.expire_in)))]
      [] OTHER ->
           [method |-> "POST", path |-> "/query", key |-> NoLast,
            json |-> [query |-> IF call.query.type = "dict"
                                THEN [type |-> "list", value |-> <<call.query.value>>]
                                ELSE call.query,
                      limit |-> call.limit, last |-> call.last]]

ExpectedResult ==
    CASE call.op = "get" ->
           IF TheResponse.status = 200
           THEN [kind |-> "item", value |-> TheResponse.body] ELSE [kind |-> "None"]
      [] call.op = "delete" -> [kind |-> "None"]
      [] call.op = "insert" ->
           IF TheResponse.status = 201
           THEN [kind |-> "item", value |-> TheResponse.body] ELSE [kind |-> "None"]
      [] call.op = "update" -> [kind |-> "bool", value |-> TheResponse.status = 200]
      [] OTHER ->
           IF TheResponse.status = 200
           THEN [kind |-> "QueryResult",
                 value |-> [items |-> TheResponse.body.items,
                            count |-> TheResponse.body.paging["size"],
                            last |-> IF "last" \in DOMAIN TheResponse.body.paging
                                     THEN TheResponse.body.paging["last"]
                                     ELSE NoLast]]
           ELSE EmptyResult

Ops == {"get", "delete", "insert", "update", "query"}

(* C27: DetaBase and AsyncDetaBase are equivalent.  For the same call with
   the same arguments and the same responses either client sends the same
   requests (method, path, body) and returns the same result, or raises
   alike: the request and the result of every call are the ones fixed by the
   arguments and the responses, whichever client made the call, and the
   result operators of the two clients agree on every response. *)
C27_ClientsAreEquivalent ==
    /\ call.op \in Ops =>
          /\ TheRequest = ExpectedRequest
          /\ Len(requests) = call.sent + 1
    /\ \A op \in Ops :
          /\ Answered(op) => pc = "done" /\ ret = ExpectedResult
          /\ (Finished(op) /\ TheResponse.raised) => pc = "raised" /\ ret = Raised
    /\ Answered("get") =>
          DetaBase_get_result(TheResponse) = AsyncDetaBase_get_result(TheResponse)
    /\ Answered("delete") =>
          DetaBase_delete_result(TheResponse) = AsyncDetaBase_delete_result(TheResponse)
    /\ Answered("insert") =>
          DetaBase_insert_result(TheResponse) = AsyncDetaBase_insert_result(TheResponse)
    /\ Answered("update") =>
          DetaBase_update_result(TheResponse) = AsyncDetaBase_update_result(TheResponse)
    /\ Answered("query") =>
          /\ DetaBase_query_result(TheResponse) = AsyncDetaBase_query_result(TheResponse)
          /\ DetaBase_query_json(call.query, call.limit, call.last)
                = AsyncDetaBase_query_json(call.query, call.limit, call.last)
    /\ PutCalled =>
          /\ Len(requests) = NumChunks(Len(args) - Len(items))
          /\ SentItems(requests) = SubSeq(CallerItems, 1, Len(args) - Len(items))
          /\ \A k \in DOMAIN requests :
                requests[k].method = "PUT" /\ requests[k].path = "/items"
          /\ pc = "raised" <=> (received > 0 /\ responses[received].raised)
          /\ pc = "done" => result = Processed207(responses)

(* the asyncio client has inserted an item with a TTL *)
C27_Witness ==
    /\ client = "AsyncDetaBase"
    /\ Answered("insert")
    /\ TheResponse.status = CREATED
    /\ call.expire_in # None
    /\ TTL_ATTRIBUTE \in DOMAIN ret.value

LoopFirst == loop.first + 1
LoopAnswers == LoopFirst..Len(responses)

(* the items of the pages answered 200, in order *)
RECURSIVE PagesOf(_)
PagesOf(resps) ==
    IF resps = <<>> THEN <<>>
    ELSE PagesOf(SubSeq(resps, 1, Len(resps) - 1))
            \o (IF resps[Len(resps)].status = OK
                THEN resps[Len(resps)].body.items ELSE <<>>)

(* C29: when a query request of the pagination loop is answered with a
   status other than 200, query returns an empty page with a null cursor and
   the loop ends at that call, holding the items of the earlier pages only;
   the caller then sees what it sees after a complete traversal: a null
   cursor and no error. *)
C29_FailedPageEndsTheLoopSilently ==
    /\ (loop.state = "running" /\ Answered("query") /\ TheResponse.status # OK) =>
          ret = EmptyResult
    /\ loop.state = "finished" =>
          /\ pc = "done"
          /\ loop.last = NoLast
          /\ ret.value.last = NoLast
          /\ \A i \in LoopAnswers :
                /\ ~responses[i].raised
                /\ responses[i].status # OK => i = Len(responses) /\ ret = EmptyResult
          /\ loop.items = PagesOf(SubSeq(responses, LoopFirst, Len(responses)))
          /\ loop.pages = Len(requests) - loop.first

(* the second page failed: the loop is over with the first page only *)
C29_Witness ==
    /\ loop.state = "finished"
    /\ loop.pages = 2
    /\ loop.query.type = "None"
    /\ responses[LoopFirst].status = OK
    /\ responses[LoopFirst + 1].status = 500
    /\ Len(loop.items) = 1
    /\ Cardinality(MatchingItems) = 3
    /\ pc = "done"

----------------------------------------------------------------------------
(* Properties of calls in sequence *)

(* the second put of the same items has returned, and every request of both
   puts was served *)
PutTwice == call.op = "put" /\ pc = "done"
BothServed ==
    \A i \in DOMAIN responses :
        ~responses[i].raised /\ responses[i].status = MULTI_STATUS

SameButTtl(item, other) ==
    /\ DOMAIN item = DOMAIN other
    /\ \A f \in DOMAIN item \ {TTL_ATTRIBUTE} : item[f] = other[f]

GotInserted ==
    /\ Answered("get")
    /\ "first" \in DOMAIN call
    /\ TheResponse.status = OK
OriginalItem == call.first.item
TtlGiven(c) == c.expire_at # None \/ c.expire_in # None

(* C24, as stated: for an item without a key, insert followed by get with
   the key of the returned item yields exactly the original fields besides
   the key. *)
C24_GetYieldsExactlyTheOriginalFields ==
    (GotInserted /\ "key" \notin DOMAIN OriginalItem) =>
        /\ DOMAIN ret.value \ {"key"} = DOMAIN OriginalItem
        /\ \A f \in DOMAIN OriginalItem : ret.value[f] = OriginalItem[f]

(* C24, as the code has it: for an item without a key and without a TTL
   field of its own, insert followed by get with the key of the returned
   item yields every original field unchanged, the key, and, when insert was
   given expire_at or expire_in, the TTL field that insert added; nothing
   else. *)
C24_GetYieldsTheOriginalFieldsAndTheTtl ==
    (GotInserted /\ {"key", TTL_ATTRIBUTE} \cap DOMAIN OriginalItem = {}) =>
        /\ DOMAIN ret.value =
              DOMAIN OriginalItem \cup {"key"}
                 \cup (IF TtlGiven(call.first) THEN {TTL_ATTRIBUTE} ELSE {})
        /\ \A f \in DOMAIN OriginalItem : ret.value[f] = OriginalItem[f]
        /\ ret.value["key"] = call.key
        /\ ret = [kind |-> "item", value |-> call.inserted]

(* an item without key inserted with no TTL and got back *)
C24_Witness ==
    /\ GotInserted
    /\ "key" \notin DOMAIN OriginalItem
    /\ ~TtlGiven(call.first)
    /\ client = "AsyncDetaBase"
    /\ call.key = 4
    /\ ret.value["age"] = 30
    /\ DOMAIN ret.value = {"key", "age"}

Categories4 == {"_set", "_increment", "_append", "_delete"}
FirstRequest == requests[call.first.sent + 1]

(* C28: update with a TTL argument writes the TTL field into the set category
   of the caller's builder and nowhere else, so the builder keeps the entry
   after the call and a later update that reuses the builder sends the same
   TTL value even without TTL arguments; update without TTL arguments leaves
   the four categories of the builder unchanged. *)
C28_UpdateWritesTheTtlIntoTheBuilder ==
    call.op = "update" =>
        /\ TheRequest.json = ItemUpdate_as_json(builders[1])
        /\ TtlGiven(call) =>
              /\ TTL_ATTRIBUTE \in DOMAIN builders[1]["_set"]
              /\ TTL_ATTRIBUTE \in DOMAIN TheRequest.json["set"]
              /\ \A f \in DOMAIN call.operations["_set"] \ {TTL_ATTRIBUTE} :
                    builders[1]["_set"][f] = call.operations["_set"][f]
              /\ DOMAIN builders[1]["_set"]
                    = DOMAIN call.operations["_set"] \cup {TTL_ATTRIBUTE}
              /\ \A c \in Categories4 \ {"_set"} : builders[1][c] = call.operations[c]
        /\ ~TtlGiven(call) => builders[1] = call.operations
        /\ "first" \in DOMAIN call =>
              /\ call.operations = ItemUpdate_init
                    => ~TtlGiven(call.first) /\ call.first.operations = ItemUpdate_init
              /\ (TtlGiven(call.first) /\ ~TtlGiven(call)) =>
                    /\ TTL_ATTRIBUTE \in DOMAIN TheRequest.json["set"]
                    /\ TheRequest.json["set"][TTL_ATTRIBUTE]
                          = FirstRequest.json["set"][TTL_ATTRIBUTE]

(* a second update without TTL arguments that sends the TTL of the first *)
C28_Witness ==
    /\ call.op = "update"
    /\ "first" \in DOMAIN call
    /\ call.first.expire_in # None
    /\ ~TtlGiven(call)
    /\ call.key # call.first.key
    /\ TTL_ATTRIBUTE \in DOMAIN TheRequest.json["set"]
    /\ now > call.first.sent

============================================================================
